---- MODULE Spec2Model ----
(***************************************************************************)
(* Yassh terminal core: the escape-sequence lexer (terminal/ansi.rs), the  *)
(* VT100 interpreter (terminal/vt100.rs), the unified line buffer          *)
(* (terminal/buffer.rs) and the emulator facade (terminal/emulator.rs).    *)
(*                                                                         *)
(* Rust indices are 0-based; sequences here are 1-based, so element i of a *)
(* Vec or VecDeque is s[i + 1].  Option<T> is <<>> (None) or <<x>> (Some). *)
(* A char is its code point, a byte its value, a string the sequence of    *)
(* its chars.  A panic of the Rust code is the flag `panicked` of the      *)
(* buffer record: nothing runs after a panic.                               *)
(*                                                                         *)
(* term is the TerminalEmulator; op names the last call made on it and its *)
(* arguments; steps counts the calls; fed and rest are the bytes of a      *)
(* message already handed to process() and those still to come.  session  *)
(* is a ManagedSession (ssh/manager.rs) with an emulator of its own, and   *)
(* manager a SessionManager with its own list of sessions.                 *)
(***************************************************************************)
EXTENDS Integers, Sequences, FiniteSets, TLC

VARIABLES term, op, steps, fed, rest, session, manager

vars == <<term, op, steps, fed, rest, session, manager>>

(***************************************************************************)
(* Geometry and capacity.  The program constructs an 80 x 24 buffer that   *)
(* keeps max(scrollback, 1000) + 24 lines; the model keeps the formulas    *)
(* and scales the three numbers down so that the cap and the screen edges  *)
(* are reached within a few operations.                                    *)
(***************************************************************************)
DEFAULT_COLS == 3

DEFAULT_ROWS == 4

MIN_BUFFER_SIZE == 1

\* config.scrollback_lines handed to TerminalBuffer::new
ScrollbackLines == 0

\* smallest and largest column / row count a resize request carries
MinDim == 2

MaxDim == 4

\* number of calls in one behaviour
MaxSteps == 4

\* length of the enumerated messages of SpecChunk
MaxMsgLen == 3

TAB_WIDTH == 8

U16_MAX == 65535

Min(a, b) == IF a < b THEN a ELSE b

Max(a, b) == IF a > b THEN a ELSE b

\* usize::saturating_sub
SatSub(a, b) == IF a > b THEN a - b ELSE 0

None == <<>>

Some(x) == <<x>>

(***************************************************************************)
(* Colours and styles                                                      *)
(***************************************************************************)
from_rgb(r, g, b) == <<r, g, b, 255>>

TRANSPARENT == <<0, 0, 0, 0>>

ANSI_COLORS ==
  << from_rgb(0, 0, 0), from_rgb(170, 0, 0), from_rgb(0, 170, 0),
     from_rgb(170, 85, 0), from_rgb(50, 100, 255), from_rgb(170, 0, 170),
     from_rgb(0, 170, 170), from_rgb(170, 170, 170), from_rgb(85, 85, 85),
     from_rgb(255, 85, 85), from_rgb(85, 255, 85), from_rgb(255, 255, 85),
     from_rgb(85, 85, 255), from_rgb(255, 85, 255), from_rgb(85, 255, 255),
     from_rgb(255, 255, 255) >>

CellStyleDefault ==
  [fg |-> from_rgb(204, 204, 204), bg |-> TRANSPARENT, bold |-> FALSE,
   italic |-> FALSE, underline |-> FALSE, strikethrough |-> FALSE,
   inverse |-> FALSE, dim |-> FALSE, blink |-> FALSE]

\* CellStyle { fg: default_fg, ..CellStyle::default() }
StyleWithFg(fg) == [CellStyleDefault EXCEPT !.fg = fg]

\* the session's configured colours (config.foreground(), config.background())
ConfigForeground == from_rgb(204, 204, 204)

ConfigBackground == from_rgb(30, 30, 30)

SPACE == 32

(***************************************************************************)
(* Line                                                                    *)
(***************************************************************************)
BlankCell(style) == [ch |-> SPACE, style |-> style]

Line_with_style(cols, style) ==
  [cells |-> [i \in 1..cols |-> BlankCell(style)], wrapped |-> FALSE]

\* Line::set: a column past the end of the line is ignored
Line_set(line, col, cell) ==
  IF col < Len(line.cells)
    THEN [line EXCEPT !.cells[col + 1] = cell]
    ELSE line

Line_clear(line, style) ==
  [line EXCEPT !.cells = [i \in 1..Len(line.cells) |-> BlankCell(style)]]

\* &mut self.cells[start..end] panics when start > end (end is already
\* clamped to the length of the line)
Line_clear_range_panics(line, start, end) ==
  start > Min(end, Len(line.cells))

Line_clear_range(line, start, end, style) ==
  LET e == Min(end, Len(line.cells))
  IN  [line EXCEPT !.cells =
         [i \in 1..Len(line.cells) |->
            IF start <= i - 1 /\ i - 1 < e THEN BlankCell(style) ELSE line.cells[i]]]

(***************************************************************************)
(* VecDeque                                                                *)
(***************************************************************************)
\* VecDeque::remove(i), used only with i < len
VecRemove(s, i) == SubSeq(s, 1, i) \o SubSeq(s, i + 2, Len(s))

\* VecDeque::insert(i, x); panics when i > len
VecInsert(s, i, x) == SubSeq(s, 1, i) \o <<x>> \o SubSeq(s, i + 1, Len(s))

VecInsertPanics(s, i) == i > Len(s)

(***************************************************************************)
(* TerminalBuffer                                                          *)
(***************************************************************************)
\* overflow_checks: whether the build panics on integer overflow (debug
\* profile) or wraps (release profile).
TerminalBuffer_new(max_scrollback, default_fg, default_bg, overflow_checks) ==
  [lines |-> <<>>,
   cols |-> DEFAULT_COLS,
   rows |-> DEFAULT_ROWS,
   max_lines |-> Max(max_scrollback, MIN_BUFFER_SIZE) + DEFAULT_ROWS,
   server_screen_start |-> 0,
   cursor |-> [row |-> 0, col |-> 0],
   saved_cursor |-> [row |-> 0, col |-> 0],
   current_style |-> StyleWithFg(default_fg),
   scroll_top |-> 0,
   scroll_bottom |-> DEFAULT_ROWS - 1,
   origin_mode |-> FALSE,
   default_fg |-> default_fg,
   default_bg |-> default_bg,
   overflow_checks |-> overflow_checks,
   panicked |-> FALSE]

Panic(b) == [b EXCEPT !.panicked = TRUE]

server_screen_to_buffer(b, screen_row) == b.server_screen_start + screen_row

RECURSIVE trim_buffer(_)
trim_buffer(b) ==
  IF Len(b.lines) > b.max_lines
    THEN trim_buffer([b EXCEPT !.lines = Tail(b.lines),
                               !.server_screen_start = SatSub(b.server_screen_start, 1)])
    ELSE b

RECURSIVE ensure_line_exists(_, _)
ensure_line_exists(b, buffer_idx) ==
  IF Len(b.lines) <= buffer_idx
    THEN ensure_line_exists(
           [b EXCEPT !.lines = Append(b.lines, Line_with_style(b.cols, b.current_style))],
           buffer_idx)
    ELSE b

\* scroll_up's iteration as it would be if the full-screen branch advanced
\* server_screen_start without appending a line
scroll_up_once_no_push(b) ==
  IF b.scroll_top = 0
    THEN [b EXCEPT !.server_screen_start = b.server_screen_start + 1]
    ELSE b

\* one iteration of the loop of scroll_up
scroll_up_once(b) ==
  IF b.scroll_top = 0
    THEN trim_buffer([b EXCEPT
           !.lines = Append(b.lines, Line_with_style(b.cols, b.current_style)),
           !.server_screen_start = b.server_screen_start + 1])
    ELSE LET top_idx == server_screen_to_buffer(b, b.scroll_top)
             bottom_idx == server_screen_to_buffer(b, b.scroll_bottom)
         IN  IF top_idx < Len(b.lines)
               THEN LET removed == VecRemove(b.lines, top_idx)
                        insert_idx == Min(bottom_idx, Len(removed))
                    IN  [b EXCEPT !.lines =
                           VecInsert(removed, insert_idx,
                                     Line_with_style(b.cols, b.current_style))]
               ELSE b

RECURSIVE scroll_up(_, _)
scroll_up(b, count) ==
  IF count = 0 \/ b.panicked THEN b ELSE scroll_up(scroll_up_once(b), count - 1)

new_line(b) ==
  IF b.cursor.row >= b.scroll_bottom
    THEN scroll_up(b, 1)
    ELSE [b EXCEPT !.cursor.row = b.cursor.row + 1]

\* put_char as it would be if it wrapped as soon as the last column is
\* written instead of deferring the wrap to the next character
put_char_eager_wrap(b, ch) ==
  LET b2 == [b EXCEPT !.cursor.row = Min(b.cursor.row, SatSub(b.rows, 1))]
      idx == server_screen_to_buffer(b2, b2.cursor.row)
      b3 == ensure_line_exists(b2, idx)
      col == b3.cursor.col
      written == [b3 EXCEPT !.lines[idx + 1] =
                              Line_set(@, col, [ch |-> ch, style |-> b3.current_style]),
                            !.cursor.col = col + 1]
  IN  IF written.cursor.col >= written.cols
        THEN new_line([written EXCEPT !.cursor.col = 0])
        ELSE written

put_char(b, ch) ==
  LET b1 == IF b.cursor.col >= b.cols
              THEN new_line([b EXCEPT !.cursor.col = 0])
              ELSE b
      b2 == [b1 EXCEPT !.cursor.row = Min(b1.cursor.row, SatSub(b1.rows, 1))]
      idx == server_screen_to_buffer(b2, b2.cursor.row)
      b3 == ensure_line_exists(b2, idx)
      col == b3.cursor.col
  IN  [b3 EXCEPT !.lines[idx + 1] = Line_set(@, col, [ch |-> ch, style |-> b3.current_style]),
                 !.cursor.col = col + 1]

carriage_return(b) == [b EXCEPT !.cursor.col = 0]

backspace(b) ==
  IF b.cursor.col > 0 THEN [b EXCEPT !.cursor.col = b.cursor.col - 1] ELSE b

tab(b) ==
  LET next_tab == ((b.cursor.col \div TAB_WIDTH) + 1) * TAB_WIDTH
  IN  [b EXCEPT !.cursor.col = Min(next_tab, SatSub(b.cols, 1))]

\* one iteration of the loop of scroll_down
scroll_down_once(b) ==
  LET top_idx == server_screen_to_buffer(b, b.scroll_top)
      bottom_idx == server_screen_to_buffer(b, b.scroll_bottom)
  IN  IF bottom_idx < Len(b.lines)
        THEN LET removed == VecRemove(b.lines, bottom_idx)
             IN  IF VecInsertPanics(removed, top_idx)
                   THEN Panic(b)
                   ELSE [b EXCEPT !.lines =
                           VecInsert(removed, top_idx,
                                     Line_with_style(b.cols, b.current_style))]
        ELSE b

RECURSIVE scroll_down(_, _)
scroll_down(b, count) ==
  IF count = 0 \/ b.panicked THEN b ELSE scroll_down(scroll_down_once(b), count - 1)

\* set_cursor_position as it would be without the clamp of the column
set_cursor_position_unclamped(b, row, col) ==
  LET r == IF b.origin_mode
             THEN Min(b.scroll_top + row, b.scroll_bottom)
             ELSE Min(row, SatSub(b.rows, 1))
  IN  [b EXCEPT !.cursor = [row |-> r, col |-> col]]

set_cursor_position(b, row, col) ==
  LET r == IF b.origin_mode
             THEN Min(b.scroll_top + row, b.scroll_bottom)
             ELSE Min(row, SatSub(b.rows, 1))
  IN  [b EXCEPT !.cursor = [row |-> r, col |-> Min(col, SatSub(b.cols, 1))]]

move_cursor_up(b, count) ==
  LET min_row == IF b.origin_mode THEN b.scroll_top ELSE 0
  IN  [b EXCEPT !.cursor.row = Max(SatSub(b.cursor.row, count), min_row)]

\* self.rows - 1 underflows when rows = 0
move_cursor_down(b, count) ==
  IF ~b.origin_mode /\ b.rows = 0 /\ b.overflow_checks
    THEN Panic(b)
    ELSE LET max_row == IF b.origin_mode THEN b.scroll_bottom ELSE b.rows - 1
         IN  [b EXCEPT !.cursor.row = Min(b.cursor.row + count, max_row)]

move_cursor_left(b, count) ==
  [b EXCEPT !.cursor.col = SatSub(b.cursor.col, count)]

move_cursor_right(b, count) ==
  [b EXCEPT !.cursor.col = Min(b.cursor.col + count, SatSub(b.cols, 1))]

save_cursor(b) == [b EXCEPT !.saved_cursor = b.cursor]

restore_cursor(b) == [b EXCEPT !.cursor = b.saved_cursor]

\* erase_in_display as it would be if screen rows were counted from the
\* first retained line instead of from server_screen_start
erase_in_display_lines_from_zero(b, mode) ==
  LET row == b.cursor.row
      col == b.cursor.col
      style == b.current_style
      Erased(i) ==
        LET r == i - 1
            line == b.lines[i]
        IN  CASE mode = 0 ->
                   IF r = row THEN Line_clear_range(line, Min(col, Len(line.cells)), b.cols, style)
                   ELSE IF r > row /\ r < b.rows THEN Line_clear(line, style)
                   ELSE line
              [] mode = 1 ->
                   IF r >= 0 /\ r < row THEN Line_clear(line, style)
                   ELSE IF r = row THEN Line_clear_range(line, 0, col + 1, style)
                   ELSE line
              [] mode \in {2, 3} ->
                   IF r >= 0 /\ r < b.rows THEN Line_clear(line, style) ELSE line
              [] OTHER -> line
  IN  [i \in 1..Len(b.lines) |-> Erased(i)]

\* the lines of erase_in_display after the erase; screen row r is line
\* server_screen_start + r, rows without a line are skipped (get_mut is None)
erase_in_display_lines(b, mode) ==
  LET row == b.cursor.row
      col == b.cursor.col
      style == b.current_style
      Erased(i) ==
        LET r == (i - 1) - b.server_screen_start
            line == b.lines[i]
        IN  CASE mode = 0 ->
                   IF r = row THEN Line_clear_range(line, col, b.cols, style)
                   ELSE IF r > row /\ r < b.rows THEN Line_clear(line, style)
                   ELSE line
              [] mode = 1 ->
                   IF r >= 0 /\ r < row THEN Line_clear(line, style)
                   ELSE IF r = row THEN Line_clear_range(line, 0, col + 1, style)
                   ELSE line
              [] mode \in {2, 3} ->
                   IF r >= 0 /\ r < b.rows THEN Line_clear(line, style) ELSE line
              [] OTHER -> line
  IN  [i \in 1..Len(b.lines) |-> Erased(i)]

erase_in_display(b, mode) ==
  LET idx == b.server_screen_start + b.cursor.row
  IN  IF /\ mode = 0
         /\ idx < Len(b.lines)
         /\ Line_clear_range_panics(b.lines[idx + 1], b.cursor.col, b.cols)
        THEN Panic(b)
        ELSE [b EXCEPT !.lines = erase_in_display_lines(b, mode)]

erase_in_line(b, mode) ==
  LET idx == server_screen_to_buffer(b, b.cursor.row)
      col == b.cursor.col
      style == b.current_style
  IN  IF idx < Len(b.lines)
        THEN LET line == b.lines[idx + 1]
             IN  CASE mode = 0 ->
                        IF Line_clear_range_panics(line, col, b.cols)
                          THEN Panic(b)
                          ELSE [b EXCEPT !.lines[idx + 1] =
                                  Line_clear_range(line, col, b.cols, style)]
                   [] mode = 1 ->
                        [b EXCEPT !.lines[idx + 1] =
                           Line_clear_range(line, 0, col + 1, style)]
                   [] mode = 2 ->
                        [b EXCEPT !.lines[idx + 1] = Line_clear(line, style)]
                   [] OTHER -> b
        ELSE b

\* count.min(self.scroll_bottom - self.cursor.row + 1) in usize arithmetic.
\* With the cursor below the bottom margin the subtraction underflows: the
\* debug profile panics; the release profile wraps, to usize::MAX + 1 = 0
\* when the cursor is one row below the margin and otherwise to a value
\* above every u16 count.
region_count_panics(b) ==
  b.cursor.row > b.scroll_bottom /\ b.overflow_checks

region_count(b, count) ==
  IF b.cursor.row <= b.scroll_bottom
    THEN Min(count, b.scroll_bottom - b.cursor.row + 1)
    ELSE IF b.cursor.row - b.scroll_bottom = 1 THEN 0 ELSE count

\* one iteration of the loop of insert_lines
insert_lines_once(b) ==
  LET bottom_idx == server_screen_to_buffer(b, b.scroll_bottom)
      cursor_idx == server_screen_to_buffer(b, b.cursor.row)
      removed == IF bottom_idx < Len(b.lines)
                   THEN VecRemove(b.lines, bottom_idx)
                   ELSE b.lines
  IN  IF VecInsertPanics(removed, cursor_idx)
        THEN Panic(b)
        ELSE [b EXCEPT !.lines =
                VecInsert(removed, cursor_idx, Line_with_style(b.cols, b.current_style))]

RECURSIVE insert_lines_loop(_, _)
insert_lines_loop(b, count) ==
  IF count = 0 \/ b.panicked THEN b
  ELSE insert_lines_loop(insert_lines_once(b), count - 1)

insert_lines(b, count) ==
  IF region_count_panics(b) THEN Panic(b)
  ELSE insert_lines_loop(b, region_count(b, count))

\* one iteration of the loop of delete_lines
delete_lines_once(b) ==
  LET cursor_idx == server_screen_to_buffer(b, b.cursor.row)
      bottom_idx == server_screen_to_buffer(b, b.scroll_bottom)
      removed == IF cursor_idx < Len(b.lines)
                   THEN VecRemove(b.lines, cursor_idx)
                   ELSE b.lines
      insert_idx == Min(bottom_idx, Len(removed))
  IN  [b EXCEPT !.lines =
         VecInsert(removed, insert_idx, Line_with_style(b.cols, b.current_style))]

RECURSIVE delete_lines_loop(_, _)
delete_lines_loop(b, count) ==
  IF count = 0 THEN b ELSE delete_lines_loop(delete_lines_once(b), count - 1)

delete_lines(b, count) ==
  IF region_count_panics(b) THEN Panic(b)
  ELSE delete_lines_loop(b, region_count(b, count))

\* one iteration of the loop of insert_chars on the cells of a line
insert_chars_once(cells, col, style) ==
  IF col < Len(cells)
    THEN LET popped == SubSeq(cells, 1, Len(cells) - 1)
         IN  SubSeq(popped, 1, col) \o <<BlankCell(style)>>
               \o SubSeq(popped, col + 1, Len(popped))
    ELSE cells

\* one iteration of the loop of delete_chars on the cells of a line
delete_chars_once(cells, col, style) ==
  IF col < Len(cells)
    THEN Append(SubSeq(cells, 1, col) \o SubSeq(cells, col + 2, Len(cells)),
                BlankCell(style))
    ELSE cells

RECURSIVE insert_chars_cells(_, _, _, _)
insert_chars_cells(cells, col, style, count) ==
  IF count = 0 THEN cells
  ELSE insert_chars_cells(insert_chars_once(cells, col, style), col, style, count - 1)

RECURSIVE delete_chars_cells(_, _, _, _)
delete_chars_cells(cells, col, style, count) ==
  IF count = 0 THEN cells
  ELSE delete_chars_cells(delete_chars_once(cells, col, style), col, style, count - 1)

insert_chars(b, count) ==
  LET idx == server_screen_to_buffer(b, b.cursor.row)
  IN  IF idx < Len(b.lines)
        THEN [b EXCEPT !.lines[idx + 1].cells =
                insert_chars_cells(@, b.cursor.col, b.current_style, count)]
        ELSE b

delete_chars(b, count) ==
  LET idx == server_screen_to_buffer(b, b.cursor.row)
  IN  IF idx < Len(b.lines)
        THEN [b EXCEPT !.lines[idx + 1].cells =
                delete_chars_cells(@, b.cursor.col, b.current_style, count)]
        ELSE b

erase_chars(b, count) ==
  LET idx == server_screen_to_buffer(b, b.cursor.row)
      col == b.cursor.col
  IN  IF idx < Len(b.lines)
        THEN [b EXCEPT !.lines[idx + 1].cells =
                [i \in 1..Len(@) |->
                   IF col <= i - 1 /\ i - 1 < Min(col + count, Len(@))
                     THEN BlankCell(b.current_style) ELSE @[i]]]
        ELSE b

\* set_scroll_region as it would be without the top < bottom test
set_scroll_region_unchecked(b, top, bottom) ==
  [b EXCEPT !.scroll_top = Min(top, SatSub(b.rows, 1)),
            !.scroll_bottom = Min(bottom, SatSub(b.rows, 1))]

set_scroll_region(b, top, bottom) ==
  LET t == Min(top, SatSub(b.rows, 1))
      bt == Min(bottom, SatSub(b.rows, 1))
  IN  IF t < bt THEN [b EXCEPT !.scroll_top = t, !.scroll_bottom = bt] ELSE b

reset_scroll_region(b) ==
  [b EXCEPT !.scroll_top = 0, !.scroll_bottom = SatSub(b.rows, 1)]

set_origin_mode(b, enabled) ==
  [b EXCEPT !.origin_mode = enabled,
            !.cursor = [row |-> IF enabled THEN b.scroll_top ELSE 0, col |-> 0]]

set_style(b, style) == [b EXCEPT !.current_style = style]

reset_style(b) == [b EXCEPT !.current_style = StyleWithFg(b.default_fg)]

scrollback_len(b) == b.server_screen_start

total_lines(b) == Len(b.lines)

get_line(b, index) == IF index < Len(b.lines) THEN Some(b.lines[index + 1]) ELSE None

\* str::trim_end on the characters a cell can hold
RECURSIVE trim_end(_)
trim_end(text) ==
  IF Len(text) > 0 /\ text[Len(text)] \in {9, 10, 11, 12, 13, SPACE}
    THEN trim_end(SubSeq(text, 1, Len(text) - 1))
    ELSE text

\* the loop of get_text_range from row on
RECURSIVE get_text_range_rows(_, _, _, _, _, _)
get_text_range_rows(b, row, start_row, start_col, end_row, end_col) ==
  IF row > end_row THEN <<>>
  ELSE LET found == get_line(b, row)
           tail == get_text_range_rows(b, row + 1, start_row, start_col, end_row, end_col)
       IN  IF found = None THEN tail
           ELSE LET line == found[1]
                    col_start == IF row = start_row THEN start_col ELSE 0
                    col_end == IF row = end_row THEN end_col + 1 ELSE Len(line.cells)
                    stop == Min(col_end, Len(line.cells))
                    line_text == [k \in 1..(stop - col_start) |-> line.cells[col_start + k].ch]
                IN  trim_end(line_text)
                      \o (IF row < end_row /\ ~line.wrapped THEN <<10>> ELSE <<>>)
                      \o tail

get_text_range(b, start_row, start_col, end_row, end_col) ==
  get_text_range_rows(b, start_row, start_row, start_col, end_row, end_col)

resize(b, cols, rows) ==
  [b EXCEPT !.cols = cols, !.rows = rows, !.scroll_bottom = SatSub(rows, 1)]

(***************************************************************************)
(* AnsiParser (terminal/ansi.rs).  parse returns the parser after the byte *)
(* and the action it emits, None or Some(action).  Bytes are written in    *)
(* decimal: ESC = 27 (0x1B), '[' = 91, ']' = 93, ';' = 59, DEL = 127.      *)
(***************************************************************************)
AnsiParser_new ==
  [state |-> "Ground", params |-> <<>>, current_param |-> 0,
   intermediates |-> <<>>, osc_string |-> <<>>]

Emit(p, action) == [parser |-> p, action |-> action]

\* AnsiParser::clear as it would be if it kept the collected parameters
Parser_clear_keep_params(p) ==
  [p EXCEPT !.current_param = 0, !.intermediates = <<>>, !.osc_string = <<>>]

Parser_clear(p) ==
  [p EXCEPT !.params = <<>>, !.current_param = 0, !.intermediates = <<>>,
            !.osc_string = <<>>]

collect_param(p) ==
  [p EXCEPT !.params = Append(p.params, p.current_param), !.current_param = 0]

\* the byte pattern 0x00..=0x17 | 0x19 | 0x1C..=0x1F
IsC0(byte) == (0 <= byte /\ byte <= 23) \/ byte = 25 \/ (28 <= byte /\ byte <= 31)

InRange(byte, lo, hi) == lo <= byte /\ byte <= hi

\* wrapping u16 arithmetic in place of saturating
SatMulAdd_wrapping(cur, digit) == (cur * 10 + digit) % (U16_MAX + 1)

\* u16::saturating_mul(10).saturating_add(digit)
SatMulAdd(cur, digit) == Min(Min(cur * 10, U16_MAX) + digit, U16_MAX)

CsiDispatch(p, byte) ==
  [kind |-> "CsiDispatch", params |-> p.params, intermediates |-> p.intermediates,
   final_byte |-> byte]

EscDispatch(p, byte) ==
  [kind |-> "EscDispatch", intermediates |-> p.intermediates, final_byte |-> byte]

DcsHook(p, byte) ==
  [kind |-> "DcsHook", params |-> p.params, intermediates |-> p.intermediates,
   final_byte |-> byte]

\* str::split(';'): the fields between the separators, <<"">> for ""
RECURSIVE SplitFrom(_, _, _)
SplitFrom(str, i, field) ==
  IF i > Len(str) THEN <<field>>
  ELSE IF str[i] = 59 THEN <<field>> \o SplitFrom(str, i + 1, <<>>)
  ELSE SplitFrom(str, i + 1, Append(field, str[i]))

OscDispatch(p) == [kind |-> "OscDispatch", params |-> SplitFrom(p.osc_string, 1, <<>>)]

ground(p, byte) ==
  CASE IsC0(byte) -> Emit(p, Some([kind |-> "Execute", byte |-> byte]))
    [] byte = 27 -> Emit(Parser_clear([p EXCEPT !.state = "Escape"]), None)
    [] InRange(byte, 32, 127) -> Emit(p, Some([kind |-> "Print", ch |-> byte]))
    [] InRange(byte, 128, 143) \/ InRange(byte, 145, 151) \/ byte \in {153, 154} ->
         Emit(p, Some([kind |-> "Execute", byte |-> byte]))
    [] byte = 144 -> Emit(Parser_clear([p EXCEPT !.state = "DcsEntry"]), None)
    [] byte = 155 -> Emit(Parser_clear([p EXCEPT !.state = "CsiEntry"]), None)
    [] byte = 156 -> Emit(p, None)
    [] byte = 157 -> Emit(Parser_clear([p EXCEPT !.state = "OscString"]), None)
    [] byte \in {152, 158, 159} -> Emit([p EXCEPT !.state = "SosPmApcString"], None)
    [] InRange(byte, 160, 255) -> Emit(p, Some([kind |-> "Print", ch |-> byte]))
    [] OTHER -> Emit(p, None)

escape(p, byte) ==
  CASE IsC0(byte) -> Emit(p, Some([kind |-> "Execute", byte |-> byte]))
    [] InRange(byte, 32, 47) ->
         Emit([p EXCEPT !.intermediates = Append(p.intermediates, byte),
                        !.state = "EscapeIntermediate"], None)
    [] \/ InRange(byte, 48, 79) \/ InRange(byte, 81, 87) \/ byte \in {89, 90, 92}
       \/ InRange(byte, 96, 126) ->
         Emit([p EXCEPT !.state = "Ground"], Some(EscDispatch(p, byte)))
    [] byte = 80 -> Emit(Parser_clear([p EXCEPT !.state = "DcsEntry"]), None)
    [] byte \in {88, 94, 95} -> Emit([p EXCEPT !.state = "SosPmApcString"], None)
    [] byte = 91 -> Emit(Parser_clear([p EXCEPT !.state = "CsiEntry"]), None)
    [] byte = 93 -> Emit(Parser_clear([p EXCEPT !.state = "OscString"]), None)
    [] byte = 127 -> Emit(p, None)
    [] byte = 27 -> Emit(Parser_clear(p), None)
    [] OTHER -> Emit([p EXCEPT !.state = "Ground"], None)

escape_intermediate(p, byte) ==
  CASE IsC0(byte) -> Emit(p, Some([kind |-> "Execute", byte |-> byte]))
    [] InRange(byte, 32, 47) ->
         Emit([p EXCEPT !.intermediates = Append(p.intermediates, byte)], None)
    [] InRange(byte, 48, 126) ->
         Emit([p EXCEPT !.state = "Ground"], Some(EscDispatch(p, byte)))
    [] byte = 127 -> Emit(p, None)
    [] byte = 27 -> Emit(Parser_clear([p EXCEPT !.state = "Escape"]), None)
    [] OTHER -> Emit([p EXCEPT !.state = "Ground"], None)

\* the arm 0x40..=0x7E of the three CSI states: collect_param, then dispatch
csi_final(p, byte) ==
  LET q == collect_param(p)
  IN  Emit([q EXCEPT !.state = "Ground"], Some(CsiDispatch(q, byte)))

csi_entry(p, byte) ==
  CASE IsC0(byte) -> Emit(p, Some([kind |-> "Execute", byte |-> byte]))
    [] InRange(byte, 32, 47) ->
         Emit([p EXCEPT !.intermediates = Append(p.intermediates, byte),
                        !.state = "CsiIntermediate"], None)
    [] InRange(byte, 48, 57) ->
         Emit([p EXCEPT !.current_param = byte - 48, !.state = "CsiParam"], None)
    [] byte = 58 -> Emit([p EXCEPT !.state = "CsiIgnore"], None)
    [] byte = 59 -> Emit([collect_param(p) EXCEPT !.state = "CsiParam"], None)
    [] InRange(byte, 60, 63) ->
         Emit([p EXCEPT !.intermediates = Append(p.intermediates, byte),
                        !.state = "CsiParam"], None)
    [] InRange(byte, 64, 126) -> csi_final(p, byte)
    [] byte = 127 -> Emit(p, None)
    [] byte = 27 -> Emit(Parser_clear([p EXCEPT !.state = "Escape"]), None)
    [] OTHER -> Emit([p EXCEPT !.state = "Ground"], None)

csi_param(p, byte) ==
  CASE IsC0(byte) -> Emit(p, Some([kind |-> "Execute", byte |-> byte]))
    [] InRange(byte, 32, 47) ->
         Emit([p EXCEPT !.intermediates = Append(p.intermediates, byte),
                        !.state = "CsiIntermediate"], None)
    [] InRange(byte, 48, 57) ->
         Emit([p EXCEPT !.current_param = SatMulAdd(p.current_param, byte - 48)], None)
    [] byte = 58 -> Emit([p EXCEPT !.state = "CsiIgnore"], None)
    [] byte = 59 -> Emit(collect_param(p), None)
    [] InRange(byte, 60, 63) -> Emit([p EXCEPT !.state = "CsiIgnore"], None)
    [] InRange(byte, 64, 126) -> csi_final(p, byte)
    [] byte = 127 -> Emit(p, None)
    [] byte = 27 -> Emit(Parser_clear([p EXCEPT !.state = "Escape"]), None)
    [] OTHER -> Emit([p EXCEPT !.state = "Ground"], None)

csi_intermediate(p, byte) ==
  CASE IsC0(byte) -> Emit(p, Some([kind |-> "Execute", byte |-> byte]))
    [] InRange(byte, 32, 47) ->
         Emit([p EXCEPT !.intermediates = Append(p.intermediates, byte)], None)
    [] InRange(byte, 48, 63) -> Emit([p EXCEPT !.state = "CsiIgnore"], None)
    [] InRange(byte, 64, 126) -> csi_final(p, byte)
    [] byte = 127 -> Emit(p, None)
    [] byte = 27 -> Emit(Parser_clear([p EXCEPT !.state = "Escape"]), None)
    [] OTHER -> Emit([p EXCEPT !.state = "Ground"], None)

csi_ignore(p, byte) ==
  CASE IsC0(byte) -> Emit(p, Some([kind |-> "Execute", byte |-> byte]))
    [] InRange(byte, 32, 63) \/ byte = 127 -> Emit(p, None)
    [] InRange(byte, 64, 126) -> Emit([p EXCEPT !.state = "Ground"], None)
    [] byte = 27 -> Emit(Parser_clear([p EXCEPT !.state = "Escape"]), None)
    [] OTHER -> Emit([p EXCEPT !.state = "Ground"], None)

\* the arm 0x40..=0x7E of the three DCS header states
dcs_final(p, byte) ==
  LET q == collect_param(p)
  IN  Emit([q EXCEPT !.state = "DcsPassthrough"], Some(DcsHook(q, byte)))

dcs_entry(p, byte) ==
  CASE IsC0(byte) \/ byte = 127 -> Emit(p, None)
    [] InRange(byte, 32, 47) ->
         Emit([p EXCEPT !.intermediates = Append(p.intermediates, byte),
                        !.state = "DcsIntermediate"], None)
    [] InRange(byte, 48, 57) ->
         Emit([p EXCEPT !.current_param = byte - 48, !.state = "DcsParam"], None)
    [] byte = 58 -> Emit([p EXCEPT !.state = "DcsIgnore"], None)
    [] byte = 59 -> Emit([collect_param(p) EXCEPT !.state = "DcsParam"], None)
    [] InRange(byte, 60, 63) ->
         Emit([p EXCEPT !.intermediates = Append(p.intermediates, byte),
                        !.state = "DcsParam"], None)
    [] InRange(byte, 64, 126) -> dcs_final(p, byte)
    [] byte = 27 -> Emit(Parser_clear([p EXCEPT !.state = "Escape"]), None)
    [] OTHER -> Emit([p EXCEPT !.state = "Ground"], None)

dcs_param(p, byte) ==
  CASE IsC0(byte) \/ byte = 127 -> Emit(p, None)
    [] InRange(byte, 32, 47) ->
         Emit([p EXCEPT !.intermediates = Append(p.intermediates, byte),
                        !.state = "DcsIntermediate"], None)
    [] InRange(byte, 48, 57) ->
         Emit([p EXCEPT !.current_param = SatMulAdd(p.current_param, byte - 48)], None)
    [] byte = 58 \/ InRange(byte, 60, 63) -> Emit([p EXCEPT !.state = "DcsIgnore"], None)
    [] byte = 59 -> Emit(collect_param(p), None)
    [] InRange(byte, 64, 126) -> dcs_final(p, byte)
    [] byte = 27 -> Emit(Parser_clear([p EXCEPT !.state = "Escape"]), None)
    [] OTHER -> Emit([p EXCEPT !.state = "Ground"], None)

dcs_intermediate(p, byte) ==
  CASE IsC0(byte) \/ byte = 127 -> Emit(p, None)
    [] InRange(byte, 32, 47) ->
         Emit([p EXCEPT !.intermediates = Append(p.intermediates, byte)], None)
    [] InRange(byte, 48, 63) -> Emit([p EXCEPT !.state = "DcsIgnore"], None)
    [] InRange(byte, 64, 126) -> dcs_final(p, byte)
    [] byte = 27 -> Emit(Parser_clear([p EXCEPT !.state = "Escape"]), None)
    [] OTHER -> Emit([p EXCEPT !.state = "Ground"], None)

dcs_passthrough(p, byte) ==
  CASE IsC0(byte) \/ InRange(byte, 32, 126) ->
         Emit(p, Some([kind |-> "DcsPut", byte |-> byte]))
    [] byte = 127 -> Emit(p, None)
    [] byte = 156 -> Emit([p EXCEPT !.state = "Ground"], Some([kind |-> "DcsUnhook"]))
    [] byte = 27 ->
         Emit(Parser_clear([p EXCEPT !.state = "Escape"]), Some([kind |-> "DcsUnhook"]))
    [] OTHER -> Emit([p EXCEPT !.state = "Ground"], Some([kind |-> "DcsUnhook"]))

dcs_ignore(p, byte) ==
  CASE IsC0(byte) \/ InRange(byte, 32, 127) -> Emit(p, None)
    [] byte = 156 -> Emit([p EXCEPT !.state = "Ground"], None)
    [] byte = 27 -> Emit(Parser_clear([p EXCEPT !.state = "Escape"]), None)
    [] OTHER -> Emit([p EXCEPT !.state = "Ground"], None)

\* osc_string_state as it would be if the terminating BEL were also executed
\* as a control character after the dispatch of the string was dropped
osc_string_state_rings(p, byte) ==
  CASE InRange(byte, 0, 6) \/ InRange(byte, 8, 23) \/ byte = 25 \/ InRange(byte, 28, 31) ->
         Emit(p, None)
    [] byte = 7 -> Emit([p EXCEPT !.state = "Ground"], Some([kind |-> "Execute", byte |-> byte]))
    [] byte = 156 -> Emit([p EXCEPT !.state = "Ground"], Some(OscDispatch(p)))
    [] byte = 27 ->
         Emit(Parser_clear([p EXCEPT !.state = "Escape"]), Some(OscDispatch(p)))
    [] OTHER -> Emit([p EXCEPT !.osc_string = Append(p.osc_string, byte)], None)

osc_string_state(p, byte) ==
  CASE InRange(byte, 0, 6) \/ InRange(byte, 8, 23) \/ byte = 25 \/ InRange(byte, 28, 31) ->
         Emit(p, None)
    [] byte \in {7, 156} -> Emit([p EXCEPT !.state = "Ground"], Some(OscDispatch(p)))
    [] InRange(byte, 32, 127) ->
         Emit([p EXCEPT !.osc_string = Append(p.osc_string, byte)], None)
    [] byte = 27 ->
         Emit(Parser_clear([p EXCEPT !.state = "Escape"]), Some(OscDispatch(p)))
    [] OTHER -> Emit([p EXCEPT !.osc_string = Append(p.osc_string, byte)], None)

sos_pm_apc_string(p, byte) ==
  CASE IsC0(byte) \/ InRange(byte, 32, 127) -> Emit(p, None)
    [] byte = 156 -> Emit([p EXCEPT !.state = "Ground"], None)
    [] byte = 27 -> Emit(Parser_clear([p EXCEPT !.state = "Escape"]), None)
    [] OTHER -> Emit(p, None)

parse(p, byte) ==
  CASE p.state = "Ground" -> ground(p, byte)
    [] p.state = "Escape" -> escape(p, byte)
    [] p.state = "EscapeIntermediate" -> escape_intermediate(p, byte)
    [] p.state = "CsiEntry" -> csi_entry(p, byte)
    [] p.state = "CsiParam" -> csi_param(p, byte)
    [] p.state = "CsiIntermediate" -> csi_intermediate(p, byte)
    [] p.state = "CsiIgnore" -> csi_ignore(p, byte)
    [] p.state = "DcsEntry" -> dcs_entry(p, byte)
    [] p.state = "DcsParam" -> dcs_param(p, byte)
    [] p.state = "DcsIntermediate" -> dcs_intermediate(p, byte)
    [] p.state = "DcsPassthrough" -> dcs_passthrough(p, byte)
    [] p.state = "DcsIgnore" -> dcs_ignore(p, byte)
    [] p.state = "OscString" -> osc_string_state(p, byte)
    [] p.state = "SosPmApcString" -> sos_pm_apc_string(p, byte)

(***************************************************************************)
(* SGR (terminal/ansi.rs)                                                  *)
(***************************************************************************)
\* `as u8`
AsU8(n) == n % 256

\* color_from_256 as it would be with an evenly spaced cube (steps of 51)
color_from_256_even_cube(index) ==
  IF index < 16 THEN ANSI_COLORS[index + 1]
  ELSE IF index < 232
    THEN LET k == index - 16
         IN  from_rgb(((k \div 36) % 6) * 51, ((k \div 6) % 6) * 51, (k % 6) * 51)
    ELSE LET gray == AsU8((index - 232) * 10 + 8)
         IN  from_rgb(gray, gray, gray)

color_from_256(index) ==
  IF index < 16 THEN ANSI_COLORS[index + 1]
  ELSE IF index < 232
    THEN LET k == index - 16
             r == (k \div 36) % 6
             g == (k \div 6) % 6
             bl == k % 6
             Chan(c) == IF c > 0 THEN AsU8(c * 40 + 55) ELSE 0
         IN  from_rgb(Chan(r), Chan(g), Chan(bl))
    ELSE LET gray == AsU8((index - 232) * 10 + 8)
         IN  from_rgb(gray, gray, gray)

\* the arms 38 and 48: the colour selected and the parameters consumed
\* beyond the code itself, or nothing when the tail is incomplete
extended_color(params, i) ==
  IF i + 2 < Len(params) /\ params[i + 2] = 5
    THEN [found |-> TRUE, color |-> color_from_256(params[i + 3]), skip |-> 2]
  ELSE IF i + 4 < Len(params) /\ params[i + 2] = 2
    THEN [found |-> TRUE,
          color |-> from_rgb(AsU8(params[i + 3]), AsU8(params[i + 4]), AsU8(params[i + 5])),
          skip |-> 4]
  ELSE [found |-> FALSE, color |-> TRANSPARENT, skip |-> 0]

\* one iteration of the loop of parse_sgr at index i (0-based): the style
\* and the next index
sgr_step(params, i, style, default_fg) ==
  LET c == params[i + 1]
      ext == extended_color(params, i)
  IN  CASE c = 0 -> [style |-> StyleWithFg(default_fg), next |-> i + 1]
        [] c = 1 -> [style |-> [style EXCEPT !.bold = TRUE], next |-> i + 1]
        [] c = 2 -> [style |-> [style EXCEPT !.dim = TRUE], next |-> i + 1]
        [] c = 3 -> [style |-> [style EXCEPT !.italic = TRUE], next |-> i + 1]
        [] c = 4 -> [style |-> [style EXCEPT !.underline = TRUE], next |-> i + 1]
        [] c \in {5, 6} -> [style |-> [style EXCEPT !.blink = TRUE], next |-> i + 1]
        [] c = 7 -> [style |-> [style EXCEPT !.inverse = TRUE], next |-> i + 1]
        [] c = 9 -> [style |-> [style EXCEPT !.strikethrough = TRUE], next |-> i + 1]
        [] c = 21 -> [style |-> [style EXCEPT !.bold = FALSE], next |-> i + 1]
        [] c = 22 -> [style |-> [style EXCEPT !.bold = FALSE, !.dim = FALSE], next |-> i + 1]
        [] c = 23 -> [style |-> [style EXCEPT !.italic = FALSE], next |-> i + 1]
        [] c = 24 -> [style |-> [style EXCEPT !.underline = FALSE], next |-> i + 1]
        [] c = 25 -> [style |-> [style EXCEPT !.blink = FALSE], next |-> i + 1]
        [] c = 27 -> [style |-> [style EXCEPT !.inverse = FALSE], next |-> i + 1]
        [] c = 29 -> [style |-> [style EXCEPT !.strikethrough = FALSE], next |-> i + 1]
        [] InRange(c, 30, 37) ->
             [style |-> [style EXCEPT !.fg = ANSI_COLORS[c - 30 + 1]], next |-> i + 1]
        [] c = 38 ->
             [style |-> IF ext.found THEN [style EXCEPT !.fg = ext.color] ELSE style,
              next |-> i + ext.skip + 1]
        [] c = 39 -> [style |-> [style EXCEPT !.fg = default_fg], next |-> i + 1]
        [] InRange(c, 40, 47) ->
             [style |-> [style EXCEPT !.bg = ANSI_COLORS[c - 40 + 1]], next |-> i + 1]
        [] c = 48 ->
             [style |-> IF ext.found THEN [style EXCEPT !.bg = ext.color] ELSE style,
              next |-> i + ext.skip + 1]
        [] c = 49 -> [style |-> [style EXCEPT !.bg = TRANSPARENT], next |-> i + 1]
        [] InRange(c, 90, 97) ->
             [style |-> [style EXCEPT !.fg = ANSI_COLORS[c - 90 + 8 + 1]], next |-> i + 1]
        [] InRange(c, 100, 107) ->
             [style |-> [style EXCEPT !.bg = ANSI_COLORS[c - 100 + 8 + 1]], next |-> i + 1]
        [] OTHER -> [style |-> style, next |-> i + 1]

RECURSIVE sgr_loop(_, _, _, _)
sgr_loop(params, i, style, default_fg) ==
  IF i < Len(params)
    THEN LET r == sgr_step(params, i, style, default_fg)
         IN  sgr_loop(params, r.next, r.style, default_fg)
    ELSE style

\* parse_sgr as it would be if it started from the reset style instead of
\* the style handed in
parse_sgr_from_reset(params, style, default_fg) ==
  sgr_loop(params, 0, StyleWithFg(default_fg), default_fg)

parse_sgr(params, style, default_fg) == sgr_loop(params, 0, style, default_fg)

(***************************************************************************)
(* Vt100Mode (terminal/vt100.rs) inside TerminalEmulator                   *)
(* (terminal/emulator.rs).  The operators below take and return the whole  *)
(* emulator record e: e.buffer is the TerminalBuffer, e.vt100 the          *)
(* Vt100Mode, e.bell_pending and e.title the emulator's own fields.        *)
(***************************************************************************)
MODE_CURSOR_KEYS == 1

MODE_REVERSE_VIDEO == 5

MODE_ORIGIN == 6

MODE_AUTO_WRAP == 7

MODE_CURSOR_VISIBLE == 25

MODE_BRACKETED_PASTE == 2004

Vt100Mode_new ==
  [parser |-> AnsiParser_new,
   cursor_keys_application |-> FALSE,
   auto_wrap |-> TRUE,
   cursor_visible |-> TRUE,
   reverse_video |-> FALSE,
   bracketed_paste |-> FALSE,
   utf8_buffer |-> <<>>,
   bell_pending |-> FALSE,
   title |-> None]

TerminalEmulator_new(overflow_checks) ==
  [buffer |-> TerminalBuffer_new(ScrollbackLines, ConfigForeground, ConfigBackground,
                                 overflow_checks),
   vt100 |-> Vt100Mode_new,
   bell_pending |-> FALSE,
   title |-> None]

WithBuffer(e, b) == [e EXCEPT !.buffer = b]

\* std::str::from_utf8 on a buffer that holds exactly the length its lead
\* byte announces, then the first char: None for an ill-formed sequence
\* (bad continuation byte, overlong form, surrogate, above U+10FFFF)
IsCont(x) == InRange(x, 128, 191)

Utf8Decode(bytes) ==
  LET b0 == bytes[1]
  IN  CASE Len(bytes) = 2 ->
             IF InRange(b0, 194, 223) /\ IsCont(bytes[2])
               THEN Some((b0 - 192) * 64 + (bytes[2] - 128))
               ELSE None
        [] Len(bytes) = 3 ->
             IF /\ InRange(b0, 224, 239)
                /\ IsCont(bytes[2]) /\ IsCont(bytes[3])
                /\ (b0 = 224 => bytes[2] >= 160)
                /\ (b0 = 237 => bytes[2] <= 159)
               THEN Some((b0 - 224) * 4096 + (bytes[2] - 128) * 64 + (bytes[3] - 128))
               ELSE None
        [] Len(bytes) = 4 ->
             IF /\ InRange(b0, 240, 244)
                /\ IsCont(bytes[2]) /\ IsCont(bytes[3]) /\ IsCont(bytes[4])
                /\ (b0 = 240 => bytes[2] >= 144)
                /\ (b0 = 244 => bytes[2] <= 143)
               THEN Some((b0 - 240) * 262144 + (bytes[2] - 128) * 4096
                           + (bytes[3] - 128) * 64 + (bytes[4] - 128))
               ELSE None
        [] OTHER -> None

\* the decoded char (or None) and the utf8_buffer afterwards
try_decode_utf8(utf8_buffer) ==
  LET expected_len == IF utf8_buffer[1] < 224 THEN 2
                      ELSE IF utf8_buffer[1] < 240 THEN 3 ELSE 4
  IN  IF Len(utf8_buffer) < expected_len
        THEN [result |-> None, utf8_buffer |-> utf8_buffer]
        ELSE [result |-> Utf8Decode(utf8_buffer), utf8_buffer |-> <<>>]

handle_execute(e, byte) ==
  CASE byte = 7 -> [e EXCEPT !.vt100.bell_pending = TRUE]
    [] byte = 8 -> WithBuffer(e, backspace(e.buffer))
    [] byte = 9 -> WithBuffer(e, tab(e.buffer))
    [] byte \in {10, 11, 12} -> WithBuffer(e, new_line(e.buffer))
    [] byte = 13 -> WithBuffer(e, carriage_return(e.buffer))
    [] OTHER -> e

\* the closure `param` of handle_csi
Param(params, i, default) ==
  IF i < Len(params) /\ params[i + 1] # 0 THEN params[i + 1] ELSE default

RECURSIVE tab_n(_, _)
tab_n(b, count) == IF count = 0 THEN b ELSE tab_n(tab(b), count - 1)

\* one iteration of the loop of handle_dec_private_mode
dec_private_mode_one(e, param, set) ==
  CASE param = MODE_CURSOR_KEYS -> [e EXCEPT !.vt100.cursor_keys_application = set]
    [] param = MODE_REVERSE_VIDEO -> [e EXCEPT !.vt100.reverse_video = set]
    [] param = MODE_ORIGIN -> WithBuffer(e, set_origin_mode(e.buffer, set))
    [] param = MODE_AUTO_WRAP -> [e EXCEPT !.vt100.auto_wrap = set]
    [] param = MODE_CURSOR_VISIBLE -> [e EXCEPT !.vt100.cursor_visible = set]
    [] param = MODE_BRACKETED_PASTE -> [e EXCEPT !.vt100.bracketed_paste = set]
    [] param \in {47, 1047} ->
         IF ~set THEN WithBuffer(e, erase_in_display(e.buffer, 2)) ELSE e
    [] param = 1049 ->
         IF set
           THEN WithBuffer(e, erase_in_display(save_cursor(e.buffer), 2))
           ELSE WithBuffer(e, restore_cursor(erase_in_display(e.buffer, 2)))
    [] OTHER -> e

RECURSIVE dec_private_mode_loop(_, _, _, _)
dec_private_mode_loop(e, params, i, set) ==
  IF i > Len(params) THEN e
  ELSE dec_private_mode_loop(dec_private_mode_one(e, params[i], set), params, i + 1, set)

\* final_byte 'h' = 104
handle_dec_private_mode(e, params, final_byte) ==
  dec_private_mode_loop(e, params, 1, final_byte = 104)

handle_csi(e, params, intermediates, final_byte) ==
  LET b == e.buffer
      p0(default) == Param(params, 0, default)
      p1(default) == Param(params, 1, default)
  IN  IF Len(intermediates) > 0 /\ intermediates[1] = 63
        THEN handle_dec_private_mode(e, params, final_byte)
      ELSE CASE final_byte = 64 -> WithBuffer(e, insert_chars(b, p0(1)))
        [] final_byte = 65 -> WithBuffer(e, move_cursor_up(b, p0(1)))
        [] final_byte \in {66, 101} -> WithBuffer(e, move_cursor_down(b, p0(1)))
        [] final_byte \in {67, 97} -> WithBuffer(e, move_cursor_right(b, p0(1)))
        [] final_byte = 68 -> WithBuffer(e, move_cursor_left(b, p0(1)))
        [] final_byte = 69 ->
             LET d == move_cursor_down(b, p0(1))
             IN  WithBuffer(e, IF d.panicked THEN d ELSE carriage_return(d))
        [] final_byte = 70 -> WithBuffer(e, carriage_return(move_cursor_up(b, p0(1))))
        [] final_byte \in {71, 96} ->
             WithBuffer(e, set_cursor_position(b, b.cursor.row, SatSub(p0(1), 1)))
        [] final_byte \in {72, 102} ->
             WithBuffer(e, set_cursor_position(b, SatSub(p0(1), 1), SatSub(p1(1), 1)))
        [] final_byte = 73 -> WithBuffer(e, tab_n(b, p0(1)))
        [] final_byte = 74 -> WithBuffer(e, erase_in_display(b, AsU8(p0(0))))
        [] final_byte = 75 -> WithBuffer(e, erase_in_line(b, AsU8(p0(0))))
        [] final_byte = 76 -> WithBuffer(e, insert_lines(b, p0(1)))
        [] final_byte = 77 -> WithBuffer(e, delete_lines(b, p0(1)))
        [] final_byte = 80 -> WithBuffer(e, delete_chars(b, p0(1)))
        [] final_byte = 83 -> WithBuffer(e, scroll_up(b, p0(1)))
        [] final_byte = 84 -> WithBuffer(e, scroll_down(b, p0(1)))
        [] final_byte = 88 -> WithBuffer(e, erase_in_line(b, 0))
        [] final_byte = 100 ->
             WithBuffer(e, set_cursor_position(b, SatSub(p0(1), 1), b.cursor.col))
        [] final_byte = 109 ->
             LET params_vec == IF Len(params) = 0 THEN <<0>> ELSE params
             IN  WithBuffer(e, set_style(b, parse_sgr(params_vec, b.current_style,
                                                      b.default_fg)))
        [] final_byte = 114 ->
             LET top == SatSub(p0(1), 1)
                 bottom == SatSub(p1(b.rows % 65536), 1)
             IN  WithBuffer(e, set_scroll_region(b, top, bottom))
        [] final_byte = 115 -> WithBuffer(e, save_cursor(b))
        [] final_byte = 117 -> WithBuffer(e, restore_cursor(b))
        [] OTHER -> e

\* DECALN: the inner loop puts cols chars, the outer loop walks the rows
RECURSIVE put_char_n(_, _, _)
put_char_n(b, ch, count) ==
  IF count = 0 \/ b.panicked THEN b ELSE put_char_n(put_char(b, ch), ch, count - 1)

RECURSIVE alignment_rows(_, _, _, _)
alignment_rows(b, row, rows, cols) ==
  IF row >= rows \/ b.panicked THEN b
  ELSE alignment_rows(put_char_n(set_cursor_position(b, row, 0), 69, cols),
                      row + 1, rows, cols)

handle_esc(e, intermediates, final_byte) ==
  LET b == e.buffer
      none == Len(intermediates) = 0
  IN  CASE none /\ final_byte = 55 -> WithBuffer(e, save_cursor(b))
        [] none /\ final_byte = 56 -> WithBuffer(e, restore_cursor(b))
        [] none /\ final_byte = 68 -> WithBuffer(e, new_line(b))
        [] none /\ final_byte = 69 -> WithBuffer(e, new_line(carriage_return(b)))
        [] none /\ final_byte = 77 -> WithBuffer(e, move_cursor_up(b, 1))
        [] none /\ final_byte = 99 ->
             [e EXCEPT !.buffer = reset_scroll_region(reset_style(
                                    set_cursor_position(erase_in_display(b, 2), 0, 0))),
                       !.vt100.cursor_keys_application = FALSE,
                       !.vt100.auto_wrap = TRUE,
                       !.vt100.cursor_visible = TRUE,
                       !.vt100.reverse_video = FALSE]
        [] ~none /\ intermediates[1] = 35 /\ final_byte = 56 ->
             WithBuffer(e, set_cursor_position(
                             alignment_rows(b, 0, b.rows, b.cols), 0, 0))
        [] OTHER -> e

\* join as it would be if it kept the first of the fields only
JoinSemi_first_field(fields, i) == IF i > Len(fields) THEN <<>> ELSE fields[i]

\* [String]::join(";")
RECURSIVE JoinSemi(_, _)
JoinSemi(fields, i) ==
  IF i > Len(fields) THEN <<>>
  ELSE IF i = Len(fields) THEN fields[i]
  ELSE fields[i] \o <<59>> \o JoinSemi(fields, i + 1)

\* "0" = <<48>>, "2" = <<50>>
handle_osc(e, params) ==
  IF Len(params) = 0 THEN e
  ELSE IF params[1] \in {<<48>>, <<50>>} /\ Len(params) > 1
    THEN [e EXCEPT !.vt100.title = Some(JoinSemi(params, 2))]
    ELSE e

handle_action(e, action) ==
  CASE action.kind = "Print" -> WithBuffer(e, put_char(e.buffer, action.ch))
    [] action.kind = "Execute" -> handle_execute(e, action.byte)
    [] action.kind = "CsiDispatch" ->
         handle_csi(e, action.params, action.intermediates, action.final_byte)
    [] action.kind = "EscDispatch" ->
         handle_esc(e, action.intermediates, action.final_byte)
    [] action.kind = "OscDispatch" -> handle_osc(e, action.params)
    [] OTHER -> e

\* the body of the loop of Vt100Mode::process for one byte
process_byte(e, byte) ==
  IF Len(e.vt100.utf8_buffer) > 0
    THEN LET d == try_decode_utf8(Append(e.vt100.utf8_buffer, byte))
             e1 == [e EXCEPT !.vt100.utf8_buffer = d.utf8_buffer]
         IN  IF d.result # None
               THEN WithBuffer(e1, put_char(e1.buffer, d.result[1]))
               ELSE e1
  ELSE IF byte >= 128 /\ byte < 192 THEN e
  ELSE IF byte >= 192 THEN [e EXCEPT !.vt100.utf8_buffer = <<byte>>]
  ELSE LET r == parse(e.vt100.parser, byte)
           e1 == [e EXCEPT !.vt100.parser = r.parser]
       IN  IF r.action # None THEN handle_action(e1, r.action[1]) ELSE e1

RECURSIVE Vt100Mode_process(_, _, _)
Vt100Mode_process(e, data, i) ==
  IF i > Len(data) \/ e.buffer.panicked THEN e
  ELSE Vt100Mode_process(process_byte(e, data[i]), data, i + 1)

\* process() as it would be if every call started from a fresh lexer
TerminalEmulator_process_fresh_parser(e, data) ==
  LET e1 == Vt100Mode_process([e EXCEPT !.vt100.parser = AnsiParser_new], data, 1)
  IN  IF e1.buffer.panicked THEN e1
      ELSE [e1 EXCEPT !.bell_pending = e1.vt100.bell_pending \/ e1.bell_pending,
                      !.vt100.bell_pending = FALSE,
                      !.title = IF e1.vt100.title # None THEN e1.vt100.title ELSE e1.title,
                      !.vt100.title = None]

\* TerminalEmulator::process: the bytes, then the bell and the title move
\* from the Vt100Mode to the emulator
TerminalEmulator_process(e, data) ==
  LET e1 == Vt100Mode_process(e, data, 1)
  IN  IF e1.buffer.panicked THEN e1
      ELSE [e1 EXCEPT !.bell_pending = e1.vt100.bell_pending \/ e1.bell_pending,
                      !.vt100.bell_pending = FALSE,
                      !.title = IF e1.vt100.title # None THEN e1.vt100.title ELSE e1.title,
                      !.vt100.title = None]

\* config.bell_notification, by default
BellNotificationDefault == "BlinkLine"

\* TerminalEmulator::take_bell as it would be if it left the flag set
TerminalEmulator_take_bell_keep(e) ==
  [emulator |-> e,
   result |-> IF e.bell_pending THEN Some(BellNotificationDefault) ELSE None]

\* TerminalEmulator::take_bell: the emulator afterwards and the value returned
TerminalEmulator_take_bell(e) ==
  [emulator |-> [e EXCEPT !.bell_pending = FALSE],
   result |-> IF e.bell_pending THEN Some(BellNotificationDefault) ELSE None]

\* TerminalEmulator::take_title: the emulator afterwards and the value returned
TerminalEmulator_take_title(e) ==
  [emulator |-> [e EXCEPT !.title = None], result |-> e.title]

TerminalEmulator_resize(e, cols, rows) == WithBuffer(e, resize(e.buffer, cols, rows))

(***************************************************************************)
(* Input byte strings                                                      *)
(***************************************************************************)
RECURSIVE Digits(_)
Digits(n) == IF n < 10 THEN <<48 + n>> ELSE Digits(n \div 10) \o <<48 + (n % 10)>>

RECURSIVE ParamBytes(_, _)
ParamBytes(ps, i) ==
  IF i > Len(ps) THEN <<>>
  ELSE Digits(ps[i]) \o (IF i < Len(ps) THEN <<59>> ELSE <<>>) \o ParamBytes(ps, i + 1)

\* ESC [ p1 ; p2 ... final
CSI(ps, final) == <<27, 91>> \o ParamBytes(ps, 1) \o <<final>>

\* ESC [ ? p final
CSIPrivate(ps, final) == <<27, 91, 63>> \o ParamBytes(ps, 1) \o <<final>>

Chr(c) == <<c>>

LF == <<10>>

CR == <<13>>

BS == <<8>>

HT == <<9>>

DECSC == <<27, 55>>

DECRC == <<27, 56>>

CUP(r, c) == CSI(<<r, c>>, 72)

CHA(n) == CSI(<<n>>, 71)

CUF(n) == CSI(<<n>>, 67)

CUB(n) == CSI(<<n>>, 68)

ED(mode) == CSI(<<mode>>, 74)

EL(mode) == CSI(<<mode>>, 75)

IL(n) == CSI(<<n>>, 76)

DL(n) == CSI(<<n>>, 77)

SU(n) == CSI(<<n>>, 83)

SD(n) == CSI(<<n>>, 84)

ICH(n) == CSI(<<n>>, 64)

DCH(n) == CSI(<<n>>, 80)

DECSTBM(t, b) == CSI(<<t, b>>, 114)

SCOSC == CSI(<<>>, 115)

SCORC == CSI(<<>>, 117)

OriginOn == CSIPrivate(<<6>>, 104)

OriginOff == CSIPrivate(<<6>>, 108)

\* as many 'a' as the screen is wide at construction
FillRow == [i \in 1..DEFAULT_COLS |-> 97]

(***************************************************************************)
(* ssh/connection.rs and ssh/manager.rs: a session and its connection      *)
(***************************************************************************)
DEFAULT_RECONNECT_MAX_ATTEMPTS == 5

\* the largest reconnect_max_attempts a checked configuration carries
MaxReconnectAttempts == 2

\* the most events the connection's channel holds before update() drains it
MaxEvents == 2

\* the most sessions a manager holds, and the most Uuids it hands out
MaxSessions == 2

MaxIds == 3

AutoReconnect == {"Manual", "OnTabFocus", "Immediate"}

\* "New Session"
DEFAULT_SESSION_NAME == <<78, 101, 119, 32, 83, 101, 115, 115, 105, 111, 110>>

SessionConfig_default ==
  [name |-> DEFAULT_SESSION_NAME, auto_reconnect |-> "OnTabFocus",
   reconnect_max_attempts |-> DEFAULT_RECONNECT_MAX_ATTEMPTS]

SessionConfigs ==
  [name : {DEFAULT_SESSION_NAME}, auto_reconnect : AutoReconnect,
   reconnect_max_attempts : 0..MaxReconnectAttempts]

\* enum SshEvent
SshEvent_Connected == [type |-> "Connected", data |-> <<>>, natural |-> FALSE]

SshEvent_Data(data) == [type |-> "Data", data |-> data, natural |-> FALSE]

SshEvent_Disconnected(natural) == [type |-> "Disconnected", data |-> <<>>, natural |-> natural]

SshEvent_Error == [type |-> "Error", data |-> <<>>, natural |-> FALSE]

\* SshConnection::new: an empty event channel and a spawned thread that is
\* about to call establish_connection
SshConnection_new == [thread |-> "Connecting", events |-> <<>>]

\* connection_thread, establish_connection returned Err: Error is sent and the
\* thread ends
connection_thread_err(c) ==
  [c EXCEPT !.thread = "Ended", !.events = Append(@, SshEvent_Error)]

\* connection_thread, establish_connection returned Ok: Connected is sent and
\* run_session starts
connection_thread_ok(c) ==
  [c EXCEPT !.thread = "Connected", !.events = Append(@, SshEvent_Connected)]

\* run_session read n > 0 bytes from the channel
run_session_data(c, data) ==
  [c EXCEPT !.events = Append(@, SshEvent_Data(data))]

\* run_session left its loop: Disconnected is sent and the thread ends
run_session_end(c, natural) ==
  [c EXCEPT !.thread = "Ended", !.events = Append(@, SshEvent_Disconnected(natural))]

\* ManagedSession::new, in the build profile given by overflow_checks
ManagedSession_new(id, config, overflow_checks) ==
  [id |-> id, config |-> config, connection |-> None,
   emulator |-> TerminalEmulator_new(overflow_checks), title |-> config.name,
   error_message |-> None, reconnect_pending |-> "None", reconnect_attempts |-> 0,
   is_focused |-> FALSE, should_close |-> FALSE]

ManagedSession_disconnect(s) ==
  [s EXCEPT !.connection = None, !.reconnect_pending = "None", !.reconnect_attempts = 0]

ManagedSession_connect(s) ==
  LET d == IF s.connection # None THEN ManagedSession_disconnect(s) ELSE s
  IN [d EXCEPT !.error_message = None, !.reconnect_pending = "None",
               !.reconnect_attempts = 0, !.connection = Some(SshConnection_new)]

should_auto_reconnect(s) ==
  IF s.config.auto_reconnect = "Manual"
  THEN FALSE
  ELSE s.reconnect_attempts < s.config.reconnect_max_attempts

\* schedule_reconnect that marks the reconnect pending in every mode
schedule_reconnect_any_mode(s) ==
  IF s.reconnect_attempts >= s.config.reconnect_max_attempts
  THEN s
  ELSE [s EXCEPT !.reconnect_pending =
          IF s.config.auto_reconnect = "OnTabFocus" THEN "PendingOnFocus"
          ELSE "PendingImmediate"]

schedule_reconnect(s) ==
  IF ~should_auto_reconnect(s)
  THEN s
  ELSE CASE s.config.auto_reconnect = "Manual" -> s
         [] s.config.auto_reconnect = "OnTabFocus" ->
              [s EXCEPT !.reconnect_pending = "PendingOnFocus"]
         [] s.config.auto_reconnect = "Immediate" ->
              [s EXCEPT !.reconnect_pending = "PendingImmediate"]

attempt_reconnect(s) ==
  IF s.reconnect_attempts >= s.config.reconnect_max_attempts
  THEN [s EXCEPT !.error_message = Some("Reconnection failed"),
                 !.reconnect_pending = "None"]
  ELSE [s EXCEPT !.reconnect_attempts = @ + 1, !.reconnect_pending = "None",
                 !.connection = Some(SshConnection_new)]

ManagedSession_set_focused(s, focused) ==
  LET was_focused == s.is_focused
      f == [s EXCEPT !.is_focused = focused]
  IN IF focused /\ ~was_focused /\ s.reconnect_pending = "PendingOnFocus"
     THEN attempt_reconnect(f)
     ELSE f

\* one arm of the match in update()
update_event(s, event) ==
  CASE event.type = "Connected" ->
         [s EXCEPT !.error_message = None, !.reconnect_attempts = 0]
    [] event.type = "Data" ->
         LET taken == TerminalEmulator_take_title(
                        TerminalEmulator_process(s.emulator, event.data))
         IN [s EXCEPT !.emulator = taken.emulator,
                      !.title = IF taken.result # None THEN taken.result[1] ELSE @]
    [] event.type = "Disconnected" ->
         LET d == [s EXCEPT !.connection = None]
         IN IF event.natural THEN [d EXCEPT !.should_close = TRUE]
            ELSE IF d.error_message = None THEN schedule_reconnect(d)
            ELSE d
    [] event.type = "Error" ->
         schedule_reconnect([s EXCEPT !.error_message = Some("Error")])

RECURSIVE update_events(_, _)
\* the loop over the collected events in update()
update_events(s, events) ==
  IF events = <<>>
  THEN s
  ELSE update_events(update_event(s, Head(events)), Tail(events))

\* update(): the session after the call; the flag it returns is not kept
ManagedSession_update(s) ==
  IF s.reconnect_pending = "PendingImmediate"
  THEN attempt_reconnect(s)
  ELSE IF s.connection = None
  THEN s
  ELSE update_events([s EXCEPT !.connection = Some([s.connection[1] EXCEPT !.events = <<>>])],
                     s.connection[1].events)

\* SessionManager::new; next_id stands for the Uuid the next session gets
SessionManager_new == [sessions |-> <<>>, active_index |-> None, next_id |-> 0]

\* sessions.iter().position(|s| s.id == id)
position(sessions, id) ==
  IF \E i \in 1..Len(sessions) : sessions[i].id = id
  THEN Some((CHOOSE i \in 1..Len(sessions) :
               /\ sessions[i].id = id
               /\ \A j \in 1..(i - 1) : sessions[j].id # id) - 1)
  ELSE None

\* add_session, in the build profile given by overflow_checks
SessionManager_add_session(m, config, overflow_checks) ==
  LET sessions == Append(m.sessions, ManagedSession_new(m.next_id, config, overflow_checks))
  IN [m EXCEPT !.sessions = sessions,
               !.next_id = @ + 1,
               !.active_index = IF m.active_index = None
                                THEN Some(Len(sessions) - 1)
                                ELSE @]

\* close_session that leaves active_index as it was
SessionManager_close_session_keep_index(m, id) ==
  IF position(m.sessions, id) = None
  THEN m
  ELSE [m EXCEPT !.sessions = VecRemove(m.sessions, position(m.sessions, id)[1])]

SessionManager_close_session(m, id) ==
  IF position(m.sessions, id) = None
  THEN m
  ELSE LET index == position(m.sessions, id)[1]
           sessions == VecRemove(m.sessions, index)
       IN [m EXCEPT
             !.sessions = sessions,
             !.active_index =
                IF m.active_index = None
                THEN None
                ELSE LET active == m.active_index[1]
                     IN IF active >= Len(sessions)
                        THEN IF sessions = <<>> THEN None ELSE Some(Len(sessions) - 1)
                        ELSE IF active > index THEN Some(active - 1)
                        ELSE m.active_index]

SessionManager_set_active(m, id) ==
  [m EXCEPT !.sessions =
              [i \in 1..Len(m.sessions) |->
                 ManagedSession_set_focused(m.sessions[i], m.sessions[i].id = id)],
            !.active_index = IF position(m.sessions, id) = None THEN @
                             ELSE position(m.sessions, id)]

SessionManager_set_active_index(m, index) ==
  IF index < Len(m.sessions)
  THEN [m EXCEPT !.active_index = Some(index),
                 !.sessions =
                   [i \in 1..Len(m.sessions) |->
                      ManagedSession_set_focused(m.sessions[i], i - 1 = index)]]
  ELSE m

\* Option::unwrap_or(0) on active_index
unwrap_or_0(o) == IF o = None THEN 0 ELSE o[1]

SessionManager_next_tab(m) ==
  IF m.sessions = <<>>
  THEN m
  ELSE SessionManager_set_active_index(
         m, (unwrap_or_0(m.active_index) + 1) % Len(m.sessions))

SessionManager_prev_tab(m) ==
  IF m.sessions = <<>>
  THEN m
  ELSE LET current == unwrap_or_0(m.active_index)
       IN SessionManager_set_active_index(
            m, IF current = 0 THEN Len(m.sessions) - 1 ELSE current - 1)

(***************************************************************************)
(* The state machine: calls of process() and resize() on one emulator      *)
(***************************************************************************)
NoOp == [name |-> "new", data |-> <<>>, cols |-> 0, rows |-> 0, result |-> None]

\* the emulator right after TerminalEmulator::new, in either build profile
Init ==
  /\ term \in {TerminalEmulator_new(oc) : oc \in BOOLEAN}
  /\ op = NoOp
  /\ steps = 0
  /\ session = ManagedSession_new(0, SessionConfig_default, term.buffer.overflow_checks)
  /\ manager = SessionManager_new
  /\ fed = <<>>
  /\ rest = <<>>

\* process(data)
ProcessCall(data, bound) ==
  /\ ~term.buffer.panicked
  /\ steps < bound
  /\ term' = TerminalEmulator_process(term, data)
  /\ op' = [name |-> "process", data |-> data, cols |-> 0, rows |-> 0, result |-> None]
  /\ steps' = steps + 1
  /\ UNCHANGED <<fed, rest, session, manager>>

\* resize(cols, rows)
ResizeCall(cols, rows, bound) ==
  /\ ~term.buffer.panicked
  /\ steps < bound
  /\ term' = TerminalEmulator_resize(term, cols, rows)
  /\ op' = [name |-> "resize", data |-> <<>>, cols |-> cols, rows |-> rows,
            result |-> None]
  /\ steps' = steps + 1
  /\ UNCHANGED <<fed, rest, session, manager>>

DECALN == <<27, 35, 56>>

(***************************************************************************)
(* SpecProc: process() only, fed whole control sequences and characters.   *)
(***************************************************************************)
\* max_lines of the buffer the model constructs
MaxLines == Max(ScrollbackLines, MIN_BUFFER_SIZE) + DEFAULT_ROWS

PrintInputs == {Chr(97), FillRow}

RestoreInputs == {DECRC, SCORC}

\* cursor-addressing sequences, each with the row and column it asks for:
\* CSI H, CSI 0;0 H, CSI 2 H, CSI 2;1 H, CSI 2;2 f, CSI 5;10 H, CSI 9;9 H
CupCases ==
  { <<CSI(<<>>, 72), 1, 1>>, <<CSI(<<0, 0>>, 72), 1, 1>>, <<CSI(<<2>>, 72), 2, 1>>,
    <<CUP(2, 1), 2, 1>>, <<CSI(<<2, 2>>, 102), 2, 2>>, <<CUP(5, 10), 5, 10>>,
    <<CUP(9, 9), 9, 9>> }

\* CUP, CHA, CUF, CUB, HT, CR, BS, restore cursor, origin-mode toggle
PositioningInputs ==
  { CHA(9), CUF(1), CUB(1), HT, CR, BS, OriginOn, OriginOff }
    \cup { case[1] : case \in CupCases } \cup RestoreInputs

ProcInputs ==
  PrintInputs \cup PositioningInputs
    \cup { LF, DECSC, DECSTBM(2, 3), IL(1), DL(1), SU(MaxLines) }

Process == \E data \in ProcInputs : ProcessCall(data, MaxSteps)

NextProc == Process

SpecProc == Init /\ [][NextProc]_vars

(***************************************************************************)
(* Spec: process() interleaved with resize().                              *)
(***************************************************************************)
MainInputs ==
  { Chr(97), FillRow, LF, DECALN, CUP(2, 2), DECSTBM(2, 3), DECSTBM(1, 2), SU(1),
    ED(0), ED(1), ED(2), ED(3), EL(0), EL(1), EL(2) }

Dims == MinDim..MaxDim

ProcessMain == \E data \in MainInputs : ProcessCall(data, MaxSteps)

Resize == \E cols \in Dims, rows \in Dims : ResizeCall(cols, rows, MaxSteps)

Next == ProcessMain \/ Resize

Spec == Init /\ [][Next]_vars

(***************************************************************************)
(* SpecChunk: one message, handed to process() in consecutive chunks of    *)
(* any lengths.  The messages are every byte string of length MaxMsgLen    *)
(* over ChunkBytes (ESC [ ] 1 H a BEL and the two bytes of U+00E9) and a   *)
(* few longer ones holding a whole CSI, an OSC title and multi-byte chars. *)
(***************************************************************************)
ChunkBytes == {27, 91, 93, 49, 72, 97, 7, 195, 169}

LongMessages ==
  { <<27, 93, 48, 59, 97, 7, 97>>,
    <<27, 91, 50, 59, 50, 72, 97>>,
    <<226, 130, 172, 97>>,
    <<7, 27, 93, 50, 59, 97, 27, 92>>,
    <<97, 195, 169, 27, 91, 51, 49, 109, 97>> }

Messages == [1..MaxMsgLen -> ChunkBytes] \cup LongMessages

InitChunk ==
  /\ term \in {TerminalEmulator_new(oc) : oc \in BOOLEAN}
  /\ op = NoOp
  /\ steps = 0
  /\ session = ManagedSession_new(0, SessionConfig_default, term.buffer.overflow_checks)
  /\ manager = SessionManager_new
  /\ fed = <<>>
  /\ rest \in Messages

\* process(the next n bytes of the message)
Feed ==
  \E n \in 1..Len(rest) :
    /\ ~term.buffer.panicked
    /\ term' = TerminalEmulator_process(term, SubSeq(rest, 1, n))
    /\ op' = [name |-> "process", data |-> SubSeq(rest, 1, n), cols |-> 0, rows |-> 0, result |-> None]
    /\ steps' = steps + 1
    /\ fed' = fed \o SubSeq(rest, 1, n)
    /\ rest' = SubSeq(rest, n + 1, Len(rest))
    /\ UNCHANGED <<session, manager>>

NextChunk == Feed

SpecChunk == InitChunk /\ [][NextChunk]_vars

\* the emulator after a single process() call on the bytes fed so far
SingleCall ==
  TerminalEmulator_process(TerminalEmulator_new(term.buffer.overflow_checks), fed)

\* C1: chunk-invariance.  However the bytes fed so far were split into
\* process() calls, the emulator (lines, scrollback_len, cursor, scroll
\* region, style, mode flags, pending bell and title, lexer state, UTF-8
\* accumulator) is in exactly the state one process() call on their
\* concatenation produces.
C1_ChunkInvariance ==
  /\ term.buffer.panicked = SingleCall.buffer.panicked
  /\ ~term.buffer.panicked => term = SingleCall

\* a two-byte character (U+00E9) whose second byte arrived in a call of its
\* own has been printed on the first line
C1_Witness_SplitUtf8 ==
  /\ steps >= 2
  /\ op.data = <<169>>
  /\ Len(term.buffer.lines) > 0
  /\ \E c \in 1..DEFAULT_COLS : term.buffer.lines[1].cells[c].ch = 233

(***************************************************************************)
(* Claims                                                                  *)
(***************************************************************************)
Buf == term.buffer

\* C2: from a freshly constructed terminal no byte sequence fed to process()
\* causes a fault (an insert past the end of the line list, a slice with
\* start > end, an unsigned underflow).
C2_NoFault == ~Buf.panicked

\* C3 as claimed: the cursor row is in [0, rows), the column in [0, cols],
\* and every cursor-positioning operation, restore cursor included, leaves
\* the column strictly below cols.
C3_PositioningBelowCols ==
  /\ Buf.cursor.row < Buf.rows
  /\ Buf.cursor.col <= Buf.cols
  /\ (op.data \in PositioningInputs /\ ~Buf.panicked) => Buf.cursor.col < Buf.cols

\* C3 as amended: the cursor row is in [0, rows) and the column in [0, cols];
\* every cursor-positioning operation other than restore cursor leaves the
\* column strictly below cols; restore cursor leaves the cursor where it was
\* saved; and the column becomes cols only by printing into the last column
\* or by restoring a cursor saved in that pending-wrap state.
C3_CursorBounds ==
  [][ LET b == term'.buffer
      IN  /\ b.cursor.row < b.rows
          /\ b.cursor.col <= b.cols
          /\ (op'.data \in PositioningInputs \ RestoreInputs /\ ~b.panicked)
               => b.cursor.col < b.cols
          /\ op'.data \in RestoreInputs => b.cursor = Buf.saved_cursor
          /\ (b.cursor.col = b.cols /\ Buf.cursor.col # Buf.cols)
               => op'.data \in PrintInputs \cup RestoreInputs ]_vars

\* restore cursor has put the cursor back into the pending-wrap column
C3_Witness_RestoredPendingWrap ==
  /\ op.data \in RestoreInputs
  /\ Buf.cursor.col = Buf.cols
  /\ ~Buf.panicked

\* C4: every retained line, history and screen, has exactly cols() cells.
C4_LineWidths ==
  \A i \in 1..Len(Buf.lines) : Len(Buf.lines[i].cells) = Buf.cols

\* C5: total_lines() never exceeds the maximum retained line count.
C5_LineCap == total_lines(Buf) <= Buf.max_lines

\* C6: with every resize carrying rows >= 2, scroll_top < scroll_bottom and
\* scroll_bottom < rows.
C6_ScrollRegionValid ==
  /\ Buf.scroll_top < Buf.scroll_bottom
  /\ Buf.scroll_bottom < Buf.rows

\* C7: after resize(c, r) the cursor column is at most c - 1 and the cursor
\* row at most r - 1.
C7_ResizeClampsCursor ==
  op.name = "resize" =>
    /\ Buf.cursor.col <= op.cols - 1
    /\ Buf.cursor.row <= op.rows - 1

\* C8: resize(cols(), rows()) leaves the whole terminal state unchanged.
C8_ResizeIdempotent ==
  [][ (op'.name = "resize" /\ op'.cols = Buf.cols /\ op'.rows = Buf.rows)
        => term' = term ]_vars

\* C9: a resize that changes only the row count keeps every line; shrinking
\* by k rows on a full screen moves k rows into history (scrollback_len grows
\* by k and, where the cursor row allows it, the cursor stays on the same
\* buffer line); growing by k rows pulls min(k, history available) rows back.
C9_ResizeRedistributesRows ==
  [][ (op'.name = "resize" /\ op'.cols = Buf.cols /\ op'.rows # Buf.rows) =>
        LET b == term'.buffer
            k == IF op'.rows < Buf.rows THEN Buf.rows - op'.rows ELSE op'.rows - Buf.rows
            full == total_lines(Buf) >= scrollback_len(Buf) + Buf.rows
        IN  /\ b.lines = Buf.lines
            /\ (op'.rows < Buf.rows /\ full) =>
                 /\ scrollback_len(b) = scrollback_len(Buf) + k
                 /\ Buf.cursor.row >= k =>
                      scrollback_len(b) + b.cursor.row
                        = scrollback_len(Buf) + Buf.cursor.row
            /\ op'.rows > Buf.rows =>
                 scrollback_len(b) = scrollback_len(Buf) - Min(k, scrollback_len(Buf)) ]_vars

EraseInputs == {ED(0), ED(1), ED(2), ED(3), EL(0), EL(1), EL(2)}

\* C10: ED and EL leave total_lines() and scrollback_len() unchanged and leave
\* every line with index < scrollback_len() unchanged; a line of the live
\* screen (index >= scrollback_len()) keeps its length and wrap flag, and a
\* cell of it changes only by being blanked in the current style.
C10_ErasePreservesHistory ==
  [][ op'.data \in EraseInputs =>
        LET b == term'.buffer
            start == scrollback_len(Buf)
        IN  /\ total_lines(b) = total_lines(Buf)
            /\ scrollback_len(b) = start
            /\ \A i \in 1..Len(Buf.lines) :
                 IF i <= start
                   THEN b.lines[i] = Buf.lines[i]
                   ELSE /\ b.lines[i].wrapped = Buf.lines[i].wrapped
                        /\ Len(b.lines[i].cells) = Len(Buf.lines[i].cells)
                        /\ \A c \in 1..Len(Buf.lines[i].cells) :
                             \/ b.lines[i].cells[c] = Buf.lines[i].cells[c]
                             \/ b.lines[i].cells[c] = BlankCell(Buf.current_style) ]_vars

\* ED 1 has blanked the screen up to the cursor and kept a history line
C10_Witness_ErasedBelowHistory ==
  /\ op.data = ED(1)
  /\ ~Buf.panicked
  /\ scrollback_len(Buf) > 0
  /\ Buf.cursor.col > 0
  /\ \E c \in 1..Len(Buf.lines[1].cells) : Buf.lines[1].cells[c].ch # SPACE
  /\ total_lines(Buf) > scrollback_len(Buf) + Buf.cursor.row
  /\ LET line == Buf.lines[scrollback_len(Buf) + Buf.cursor.row + 1]
     IN  /\ line.cells[1].ch = SPACE
         /\ \E c \in 1..Len(line.cells) : line.cells[c].ch # SPACE

(***************************************************************************)
(* SpecScroll: process() calls that set scroll regions, place the cursor   *)
(* and feed line-feeds, on the emulator as constructed.                    *)
(***************************************************************************)
ScrollInputs ==
  { Chr(97), LF, DECALN, CUP(2, 1), CUP(3, 1), CUP(DEFAULT_ROWS, 1),
    DECSTBM(1, 2), DECSTBM(2, 3) }

ProcessScroll == \E data \in ScrollInputs : ProcessCall(data, MaxSteps)

NextScroll == ProcessScroll

SpecScroll == Init /\ [][NextScroll]_vars

\* the line shown on screen row r, if the buffer holds one
ScreenRow(b, r) == get_line(b, scrollback_len(b) + r)

\* the scroll region [scroll_top, scroll_bottom] is a proper subset of the screen
RegionIsProper(b) ==
  /\ b.scroll_top < b.scroll_bottom
  /\ b.scroll_bottom < b.rows
  /\ (b.scroll_top > 0 \/ b.scroll_bottom < b.rows - 1)

\* C11: with a scroll region that is a proper subset of the screen (top = 0
\* with bottom < rows-1 included), a line-feed at the bottom margin leaves
\* total_lines() and scrollback_len() unchanged, appends nothing to history
\* and leaves every screen row outside [top, bottom] as it was.
C11_RegionConfinement ==
  [][ (op'.data = LF /\ RegionIsProper(Buf) /\ Buf.cursor.row = Buf.scroll_bottom) =>
        LET b == term'.buffer
        IN  /\ total_lines(b) = total_lines(Buf)
            /\ scrollback_len(b) = scrollback_len(Buf)
            /\ \A i \in 1..scrollback_len(Buf) : b.lines[i] = Buf.lines[i]
            /\ \A r \in 0..(Buf.rows - 1) :
                 (r < Buf.scroll_top \/ r > Buf.scroll_bottom)
                   => ScreenRow(b, r) = ScreenRow(Buf, r) ]_vars

\* C12: with a scroll region set, a line-feed received while the cursor is on
\* the last screen row, below the bottom margin, scrolls the whole screen: a
\* line is appended, the top screen row becomes history (scrollback_len grows
\* by 1 while the line cap is not reached) and no retained line is rotated.
C12_LineFeedBelowRegion ==
  [][ ( /\ op'.data = LF
        /\ RegionIsProper(Buf)
        /\ Buf.scroll_bottom < Buf.rows - 1
        /\ Buf.cursor.row = Buf.rows - 1
        /\ total_lines(Buf) < Buf.max_lines ) =>
        LET b == term'.buffer
        IN  /\ scrollback_len(b) = scrollback_len(Buf) + 1
            /\ b.lines = Append(Buf.lines, Line_with_style(Buf.cols, Buf.current_style)) ]_vars

\* C13: a line-feed on the bottom row while the scroll region is the full
\* screen appends one line and keeps every retained line in order, so the
\* former top screen row is the newest history line and former row r is row
\* r-1; scrollback_len() grows by exactly 1, unless the line cap is reached,
\* and then exactly the oldest line is evicted and scrollback_len() is
\* unchanged.
C13_UnifiedHistory ==
  [][ ( /\ op'.data = LF
        /\ Buf.scroll_top = 0
        /\ Buf.scroll_bottom = Buf.rows - 1
        /\ Buf.cursor.row = Buf.rows - 1 ) =>
        LET b == term'.buffer
            appended == Append(Buf.lines, Line_with_style(Buf.cols, Buf.current_style))
        IN  IF total_lines(Buf) < Buf.max_lines
              THEN /\ b.lines = appended
                   /\ scrollback_len(b) = scrollback_len(Buf) + 1
              ELSE /\ b.lines = Tail(appended)
                   /\ scrollback_len(b) = scrollback_len(Buf) ]_vars

\* C14: with origin mode off, CSI r;c H and CSI r;c f set the cursor to
\* (min(r, rows) - 1, min(c, cols) - 1), an omitted or zero parameter counting
\* as 1, and modify no line.
C14_CursorAddressing ==
  [][ \A case \in CupCases :
        (op'.data = case[1] /\ ~Buf.origin_mode /\ ~term'.buffer.panicked) =>
          /\ term'.buffer.cursor = [row |-> Min(case[2], Buf.rows) - 1,
                                    col |-> Min(case[3], Buf.cols) - 1]
          /\ term'.buffer.lines = Buf.lines ]_vars

\* CSI 9;9 H on a screen holding text has clamped the cursor to the last row
\* and the last column
C14_Witness_Clamped ==
  /\ op.data = CUP(9, 9)
  /\ ~Buf.origin_mode
  /\ Buf.cursor = [row |-> Buf.rows - 1, col |-> Buf.cols - 1]
  /\ \E i \in 1..Len(Buf.lines) : Buf.lines[i].cells[1].ch # SPACE

(***************************************************************************)
(* SpecSgr: printing interleaved with SGR sequences.                       *)
(***************************************************************************)
SGR(ps) == CSI(ps, 109)

\* CSI 31 m and CSI 42 m set one colour; CSI 1 m and CSI 4 m set one attribute
ResetInputs == {SGR(<<0>>), SGR(<<>>)}

SgrInputs == {SGR(<<31>>), SGR(<<42>>), SGR(<<1>>), SGR(<<4>>)} \cup ResetInputs

ProcessSgr == \E data \in SgrInputs \cup {Chr(97)} : ProcessCall(data, MaxSteps + 1)

NextSgr == ProcessSgr

SpecSgr == Init /\ [][NextSgr]_vars

\* the cell the last put_char wrote, left of the cursor on the cursor row
PrintedCell(b) ==
  b.lines[server_screen_to_buffer(b, b.cursor.row) + 1].cells[b.cursor.col]

\* C15: CSI 31 m sets only the foreground, to (170,0,0), and CSI 42 m only the
\* background, so attributes set earlier persist; CSI 0 m and CSI m give
\* fg = default foreground, transparent bg and all seven attributes off; an
\* SGR sequence changes no line, so cells printed before it keep their style;
\* a printed cell carries the style current when it was printed.
C15_SgrComposeAndReset ==
  [][ LET b == term'.buffer
          style == Buf.current_style
      IN  /\ op'.data = SGR(<<31>>) =>
               b.current_style = [style EXCEPT !.fg = <<170, 0, 0, 255>>]
          /\ op'.data = SGR(<<42>>) =>
               b.current_style = [style EXCEPT !.bg = <<0, 170, 0, 255>>]
          /\ op'.data \in ResetInputs =>
               b.current_style =
                 [fg |-> b.default_fg, bg |-> TRANSPARENT, bold |-> FALSE,
                  italic |-> FALSE, underline |-> FALSE, strikethrough |-> FALSE,
                  inverse |-> FALSE, dim |-> FALSE, blink |-> FALSE]
          /\ op'.data \in SgrInputs => b.lines = Buf.lines /\ b.cursor = Buf.cursor
          /\ op'.data = Chr(97) =>
               /\ b.current_style = style
               /\ PrintedCell(b) = [ch |-> 97, style |-> style] ]_vars

\* a bold red cell printed before CSI 0 m has kept its style, and the cell
\* printed after it has the reset style
C15_Witness_ResetAfterBoldRed ==
  /\ op.data = Chr(97)
  /\ Len(Buf.lines) > 0
  /\ Buf.lines[1].cells[1] =
       [ch |-> 97,
        style |-> [StyleWithFg(Buf.default_fg) EXCEPT !.bold = TRUE, !.fg = <<170, 0, 0, 255>>]]
  /\ Buf.lines[1].cells[2] = [ch |-> 97, style |-> StyleWithFg(Buf.default_fg)]

(***************************************************************************)
(* SpecColor: one SGR sequence selecting a 256-colour index as foreground  *)
(* (CSI 38;5;i m) or background (CSI 48;5;i m), for every i in 0..255.     *)
(***************************************************************************)
ProcessColor ==
  \E i \in 0..255, code \in {38, 48} : ProcessCall(SGR(<<code, 5, i>>), 1)

NextColor == ProcessColor

SpecColor == Init /\ [][NextColor]_vars

\* the colour the 256-colour table assigns to index i
Color256(i) ==
  LET Level(c) == IF c = 0 THEN 0 ELSE 40 * c + 55
  IN  IF i < 16 THEN ANSI_COLORS[i + 1]
      ELSE IF i <= 231
        THEN <<Level((i - 16) \div 36), Level(((i - 16) \div 6) % 6), Level((i - 16) % 6), 255>>
        ELSE <<10 * (i - 232) + 8, 10 * (i - 232) + 8, 10 * (i - 232) + 8, 255>>

\* C16: for every index i in 0..255 the colour selected is the i-th ANSI
\* colour for i < 16, the cube colour with channels 0 or 40*c+55 for
\* 16 <= i <= 231 and the gray 10*(i-232)+8 for i >= 232; 16 is (0,0,0), 231
\* is (255,255,255), 244 is (128,128,128), and every channel is in 0..255.
C16_Color256 ==
  /\ \A i \in 0..255 :
       /\ op.data = SGR(<<38, 5, i>>) => Buf.current_style.fg = Color256(i)
       /\ op.data = SGR(<<48, 5, i>>) => Buf.current_style.bg = Color256(i)
       /\ \A ch \in 1..3 : Color256(i)[ch] \in 0..255
  /\ op.data = SGR(<<38, 5, 16>>) => Buf.current_style.fg = <<0, 0, 0, 255>>
  /\ op.data = SGR(<<38, 5, 231>>) => Buf.current_style.fg = <<255, 255, 255, 255>>
  /\ op.data = SGR(<<38, 5, 244>>) => Buf.current_style.fg = <<128, 128, 128, 255>>

\* CSI 38;5;196 m has selected the cube colour (255,0,0)
C16_Witness_CubeRed ==
  /\ op.data = SGR(<<38, 5, 196>>)
  /\ Buf.current_style.fg = <<255, 0, 0, 255>>

(***************************************************************************)
(* SpecTake: process() interleaved with take_bell() and take_title().      *)
(***************************************************************************)
BEL == <<7>>

\* ESC ] 0 ; a BEL
OscTitle == <<27, 93, 48, 59, 97, 7>>

\* inputs that ring the bell, that set a title, and that do neither
BellInputs == {BEL, <<97, 7, 97>>}

QuietInputs == {Chr(97), LF}

ProcessTake ==
  \E data \in BellInputs \cup {OscTitle} \cup QuietInputs : ProcessCall(data, MaxSteps)

TakeBell ==
  /\ steps < MaxSteps
  /\ term' = TerminalEmulator_take_bell(term).emulator
  /\ op' = [name |-> "take_bell", data |-> <<>>, cols |-> 0, rows |-> 0,
            result |-> TerminalEmulator_take_bell(term).result]
  /\ steps' = steps + 1
  /\ UNCHANGED <<fed, rest, session, manager>>

TakeTitle ==
  /\ steps < MaxSteps
  /\ term' = TerminalEmulator_take_title(term).emulator
  /\ op' = [name |-> "take_title", data |-> <<>>, cols |-> 0, rows |-> 0,
            result |-> TerminalEmulator_take_title(term).result]
  /\ steps' = steps + 1
  /\ UNCHANGED <<fed, rest, session, manager>>

NextTake == ProcessTake \/ TakeBell \/ TakeTitle

SpecTake == Init /\ [][NextTake]_vars

\* C17: pending signals are consume-once.  A process() call whose input rings
\* the bell leaves the bell pending, and one whose input carries an OSC title
\* leaves that title pending; a process() call that raises no signal leaves
\* both as they were; take_bell() reports the bell exactly when it is pending
\* and take_title() returns the pending title, and a take_bell() or
\* take_title() that directly follows one of its kind returns nothing.
C17_ConsumeOnce ==
  [][ /\ (op'.name = "process" /\ op'.data \in BellInputs) =>
           term'.bell_pending /\ term'.title = term.title
      /\ (op'.name = "process" /\ op'.data = OscTitle) =>
           term'.title = Some(<<97>>) /\ term'.bell_pending = term.bell_pending
      /\ (op'.name = "process" /\ op'.data \in QuietInputs) =>
           term'.bell_pending = term.bell_pending /\ term'.title = term.title
      /\ op'.name = "take_bell" =>
           /\ (op'.result # None) = term.bell_pending
           /\ op.name = "take_bell" => op'.result = None
           /\ term'.title = term.title
      /\ op'.name = "take_title" =>
           /\ op'.result = term.title
           /\ op.name = "take_title" => op'.result = None
           /\ term'.bell_pending = term.bell_pending ]_vars

\* take_bell() has reported a bell rung two process() calls earlier, and the
\* title set before that is still pending
C17_Witness_BellTakenTitleKept ==
  /\ op.name = "take_bell"
  /\ op.result # None
  /\ ~term.bell_pending
  /\ term.title = Some(<<97>>)
  /\ Len(Buf.lines) > 0

\* the characters of a line, right-trimmed
LineText(line) == trim_end([k \in 1..Len(line.cells) |-> line.cells[k].ch])

\* C18: when a character is printed in the pending-wrap state, so that the
\* text auto-wraps onto the next line, the line left behind carries the
\* wrapped flag and get_text_range over the two lines returns their
\* characters with no '\n' between them; when the cursor moved to the next
\* line by an explicit line feed, get_text_range over the two lines returns
\* the two right-trimmed texts joined with '\n'.
C18_CopyReconstructsWraps ==
  [][ LET b == term'.buffer
          first == server_screen_to_buffer(Buf, Buf.cursor.row)
          both == first + 1 < total_lines(b)
          text == get_text_range(b, first, 0, first + 1, b.cols - 1)
      IN  (Buf.cursor.row < Buf.scroll_bottom /\ ~b.panicked /\ both) =>
            /\ (op'.data = Chr(97) /\ Buf.cursor.col = Buf.cols) =>
                 /\ b.lines[first + 1].wrapped
                 /\ text = LineText(b.lines[first + 1]) \o LineText(b.lines[first + 2])
            /\ op'.data = LF =>
                 text = LineText(b.lines[first + 1]) \o <<10>> \o LineText(b.lines[first + 2])
    ]_vars

(***************************************************************************)
(* SpecLexer: process() fed one byte at a time, over bytes that lead the   *)
(* lexer into each of its states (ESC, '[', ']', 'P', 'X', '1', ';', ':',  *)
(* ' ', 'a', CAN, SUB), plus the OSC prefix ESC ] 0 ; a in one call.  All  *)
(* bytes are below 0x80, so each one reaches AnsiParser::parse.            *)
(***************************************************************************)
OscPrefix == <<27, 93, 48, 59, 97>>

LexBytes == {27, 91, 93, 80, 88, 49, 59, 58, 32, 97, 24, 26, 127}

ProcessLexer ==
  \E data \in {<<byte>> : byte \in LexBytes} \cup {OscPrefix} : ProcessCall(data, MaxSteps)

NextLexer == ProcessLexer

SpecLexer == Init /\ [][NextLexer]_vars

Lexer == term.vt100.parser

\* the lexer in state Escape with every accumulator empty
EscapeState == [AnsiParser_new EXCEPT !.state = "Escape"]

\* C19 as claimed: in every lexer state other than Ground, ESC leaves the
\* lexer in Escape with the parameter, intermediate and OSC accumulators
\* cleared, and the lexer emits no action for the interrupted sequence.
C19_EscAbortsSilently ==
  [][ (op'.data = <<27>> /\ Lexer.state # "Ground") =>
        /\ term'.vt100.parser = EscapeState
        /\ parse(Lexer, 27).action = None ]_vars

\* C19 as amended: in every lexer state other than Ground, ESC leaves the
\* lexer in Escape with the parameter, intermediate and OSC accumulators
\* cleared, so nothing of the interrupted sequence reaches a later dispatch;
\* no action is emitted, except that in OscString the string accumulated so
\* far is dispatched (ESC is taken as the start of the ST terminator) and in
\* DcsPassthrough DcsUnhook is emitted; outside OscString nothing but the
\* lexer changes.
C19_EscAborts ==
  [][ (op'.data = <<27>> /\ Lexer.state # "Ground") =>
        /\ term'.vt100.parser = EscapeState
        /\ parse(Lexer, 27).action =
             ( CASE Lexer.state = "OscString" ->
                      Some([kind |-> "OscDispatch",
                            params |-> SplitFrom(Lexer.osc_string, 1, <<>>)])
                 [] Lexer.state = "DcsPassthrough" -> Some([kind |-> "DcsUnhook"])
                 [] OTHER -> None )
        /\ Lexer.state # "OscString" =>
             term' = [term EXCEPT !.vt100.parser = EscapeState] ]_vars

\* ESC inside the OSC string ESC ] 0 ; a has dispatched it: the title is
\* pending and the lexer is in Escape with nothing accumulated
C19_Witness_EscEndsOsc ==
  /\ op.data = <<27>>
  /\ Lexer = EscapeState
  /\ term.title = Some(<<97>>)

\* C20: in every lexer state CAN (0x18) and SUB (0x1A) move the lexer to
\* Ground and emit no action, and a printable byte that follows is printed.
C20_CancelResynchronizes ==
  [][ /\ \A byte \in {24, 26} :
           op'.data = <<byte>> =>
             /\ term'.vt100.parser.state = "Ground"
             /\ parse(Lexer, byte).action = None
      /\ (op.data \in {<<24>>, <<26>>} /\ op'.data = Chr(97)) =>
           term'.buffer = put_char(Buf, 97) ]_vars

\* C21: in Ground state a byte fed through process() is emitted as Print
\* exactly when it lies in 0x20-0x7E or 0xA0-0xFF; DEL (0x7F) emits no
\* Print and leaves the buffer as it was.
C21_GroundPrintable ==
  [][ \A byte \in 0..255 :
        (op'.data = <<byte>> /\ Lexer.state = "Ground" /\ term.vt100.utf8_buffer = <<>>) =>
          /\ (parse(Lexer, byte).action = Some([kind |-> "Print", ch |-> byte]))
               <=> (InRange(byte, 32, 126) \/ InRange(byte, 160, 255))
          /\ (byte = 127 => term'.buffer = Buf) ]_vars

(***************************************************************************)
(* SpecCsi: one CSI sequence "ESC [ fields final" fed to process() a byte  *)
(* at a time, over parameter fields that are empty, short, zero-padded and *)
(* beyond u16.                                                             *)
(***************************************************************************)
\* digit runs: "", "5", "05", "65535", "65536", "999999"
CsiFields ==
  {<<>>, <<53>>, <<48, 53>>, <<54, 53, 53, 51, 53>>, <<54, 53, 53, 51, 54>>,
   <<57, 57, 57, 57, 57, 57>>}

MaxParams == 3

CsiFieldLists == UNION {[1..n -> CsiFields] : n \in 1..MaxParams}

\* 'H' and 'm'
CsiFinals == {72, 109}

\* ESC [ field ; field ...
CsiPrefix(fields) == <<27, 91>> \o JoinSemi(fields, 1)

InitCsi ==
  /\ term \in {TerminalEmulator_new(oc) : oc \in BOOLEAN}
  /\ op = NoOp
  /\ steps = 0
  /\ session = ManagedSession_new(0, SessionConfig_default, term.buffer.overflow_checks)
  /\ manager = SessionManager_new
  /\ fed = <<>>
  /\ rest \in {CsiPrefix(fields) \o <<final>> : fields \in CsiFieldLists, final \in CsiFinals}

\* process(the next byte of the sequence)
FeedByte ==
  /\ ~term.buffer.panicked
  /\ Len(rest) > 0
  /\ term' = TerminalEmulator_process(term, <<rest[1]>>)
  /\ op' = [name |-> "process", data |-> <<rest[1]>>, cols |-> 0, rows |-> 0, result |-> None]
  /\ steps' = steps + 1
  /\ fed' = Append(fed, rest[1])
  /\ rest' = Tail(rest)
  /\ UNCHANGED <<session, manager>>

NextCsi == FeedByte

SpecCsi == InitCsi /\ [][NextCsi]_vars

\* the number a digit run denotes, unbounded; 0 for the empty run
RECURSIVE DecimalValue(_)
DecimalValue(digits) ==
  IF Len(digits) = 0 THEN 0
  ELSE DecimalValue(SubSeq(digits, 1, Len(digits) - 1)) * 10 + (digits[Len(digits)] - 48)

\* the ';'-separated fields of a parameter string
RECURSIVE SplitSemi(_)
SplitSemi(bytes) ==
  IF \E i \in 1..Len(bytes) : bytes[i] = 59
    THEN LET i == CHOOSE k \in 1..Len(bytes) :
                    bytes[k] = 59 /\ \A j \in 1..(k - 1) : bytes[j] # 59
         IN <<SubSeq(bytes, 1, i - 1)>> \o SplitSemi(SubSeq(bytes, i + 1, Len(bytes)))
    ELSE <<bytes>>

\* C22: the final byte after "ESC [ fields" dispatches a CSI whose
\* parameters are, field by field, min(decimal value, 65535), an empty
\* field giving 0, one parameter per field (number of ';' plus one).
C22_CsiParameters ==
  (Len(rest) = 1 /\ Len(fed) >= 2) =>
    LET fields == SplitSemi(SubSeq(fed, 3, Len(fed)))
        action == parse(Lexer, rest[1]).action
    IN /\ action # None
       /\ action[1].kind = "CsiDispatch"
       /\ action[1].final_byte = rest[1]
       /\ Len(action[1].params) = Len(fields)
       /\ \A i \in 1..Len(fields) :
            action[1].params[i] = Min(DecimalValue(fields[i]), U16_MAX)

\* CSI ;65536 H was dispatched with [0, 65535]
C22_Witness_EmptyAndSaturated ==
  /\ fed = <<27, 91, 59, 54, 53, 53, 51, 54, 72>>
  /\ rest = <<>>
  /\ Lexer.state = "Ground"
  /\ Lexer.params = <<0, U16_MAX>>

\* the text shown on screen row r, right-trimmed; a row the buffer holds no
\* line for shows nothing
RowText(b, r) ==
  IF ScreenRow(b, r) = None THEN <<>> ELSE LineText(ScreenRow(b, r)[1])

\* C23: IL and DL (CSI L, CSI M) act within the scroll region only.  Wherever
\* the cursor is they do not fault, leave scrollback_len(), every history
\* line and the text of every screen row outside [scroll_top, scroll_bottom]
\* as they were; with the cursor inside the region the rows from the cursor
\* row to scroll_bottom shift by one (down for IL, up for DL) with a blank
\* row filling the gap.
C23_InsertDeleteLinesInRegion ==
  [][ op'.data \in {IL(1), DL(1)} =>
        LET b == term'.buffer
            row == Buf.cursor.row
            top == Buf.scroll_top
            bottom == Buf.scroll_bottom
        IN  /\ ~b.panicked
            /\ scrollback_len(b) = scrollback_len(Buf)
            /\ \A i \in 1..scrollback_len(Buf) : b.lines[i] = Buf.lines[i]
            /\ \A r \in 0..(Buf.rows - 1) :
                 (r < top \/ r > bottom) => RowText(b, r) = RowText(Buf, r)
            /\ (top <= row /\ row <= bottom /\ op'.data = IL(1)) =>
                 /\ RowText(b, row) = <<>>
                 /\ \A r \in (row + 1)..bottom : RowText(b, r) = RowText(Buf, r - 1)
            /\ (top <= row /\ row <= bottom /\ op'.data = DL(1)) =>
                 /\ RowText(b, bottom) = <<>>
                 /\ \A r \in row..(bottom - 1) : RowText(b, r) = RowText(Buf, r + 1) ]_vars

(***************************************************************************)
(* SpecEch: process() fed printable characters, cursor moves along the     *)
(* line and ECH.                                                           *)
(***************************************************************************)
ECH(n) == CSI(<<n>>, 88)

\* ECH sequences, each with the count it asks for: CSI X, CSI 1 X, CSI 2 X
EchCases == { <<CSI(<<>>, 88), 1>>, <<ECH(1), 1>>, <<ECH(2), 2>> }

EchInputs == {Chr(97), Chr(98), CR, CUF(1), LF} \cup {case[1] : case \in EchCases}

ProcessEch == \E data \in EchInputs : ProcessCall(data, MaxSteps)

NextEch == ProcessEch

SpecEch == Init /\ [][NextEch]_vars

\* C24: ECH (CSI n X, n defaulting to 1) blanks exactly the n cells from the
\* cursor column on, clamped at the end of the line; the cells before the
\* cursor and those at columns >= cursor + n keep character and style, no
\* other line changes and the cursor does not move.
C24_EraseCharacters ==
  [][ \A case \in EchCases :
        op'.data = case[1] =>
          LET b == term'.buffer
              n == case[2]
              col == Buf.cursor.col
              idx == server_screen_to_buffer(Buf, Buf.cursor.row)
          IN  /\ ~b.panicked
              /\ b.cursor = Buf.cursor
              /\ Len(b.lines) = Len(Buf.lines)
              /\ \A i \in 1..Len(Buf.lines) :
                   i # idx + 1 => b.lines[i] = Buf.lines[i]
              /\ idx < Len(Buf.lines) =>
                   \A c \in 0..(Buf.cols - 1) :
                     IF col <= c /\ c < col + n
                       THEN b.lines[idx + 1].cells[c + 1].ch = SPACE
                       ELSE b.lines[idx + 1].cells[c + 1] = Buf.lines[idx + 1].cells[c + 1] ]_vars

\* C25: CHA (CSI n G) sets only the column, to min(n, cols) - 1; the cursor
\* row and every line stay as they were, in origin mode with a region whose
\* top is not row 0 as well.
C25_ColumnAbsolute ==
  [][ op'.data = CHA(9) =>
        /\ term'.buffer.cursor.col = Min(9, Buf.cols) - 1
        /\ term'.buffer.cursor.row = Buf.cursor.row
        /\ term'.buffer.lines = Buf.lines ]_vars

(***************************************************************************)
(* SpecReset: printing, mode changes, a scroll region and an attribute,    *)
(* interleaved with RIS.                                                   *)
(***************************************************************************)
RIS == <<27, 99>>

ModeSet(mode) == CSIPrivate(<<mode>>, 104)

ModeReset(mode) == CSIPrivate(<<mode>>, 108)

ModeInputs ==
  { ModeSet(MODE_CURSOR_KEYS), ModeReset(MODE_AUTO_WRAP), ModeReset(MODE_CURSOR_VISIBLE),
    ModeSet(MODE_REVERSE_VIDEO), ModeSet(MODE_BRACKETED_PASTE), ModeSet(MODE_ORIGIN) }

ResetSpecInputs == {Chr(97), LF, RIS, DECSTBM(2, 3), SGR(<<1>>)} \cup ModeInputs

ProcessReset == \E data \in ResetSpecInputs : ProcessCall(data, MaxSteps)

NextReset == ProcessReset

SpecReset == Init /\ [][NextReset]_vars

\* C26: RIS (ESC c) is a full reset: every cell of the live screen is blank,
\* the cursor is at (0,0), the style is the default one, the scroll region is
\* [0, rows-1] and every mode flag has its default (cursor keys normal,
\* auto-wrap on, cursor visible, reverse video off, bracketed paste off,
\* origin mode off).
C26_FullReset ==
  [][ op'.data = RIS =>
        LET b == term'.buffer
            m == term'.vt100
        IN  /\ \A i \in (scrollback_len(b) + 1)..Len(b.lines) :
                 \A c \in 1..Len(b.lines[i].cells) : b.lines[i].cells[c].ch = SPACE
            /\ b.cursor = [row |-> 0, col |-> 0]
            /\ b.current_style = StyleWithFg(b.default_fg)
            /\ b.scroll_top = 0
            /\ b.scroll_bottom = b.rows - 1
            /\ ~m.cursor_keys_application
            /\ m.auto_wrap
            /\ m.cursor_visible
            /\ ~m.reverse_video
            /\ ~m.bracketed_paste
            /\ ~b.origin_mode ]_vars

(***************************************************************************)
(* SpecAlt: printing and cursor moves interleaved with whole visits of the *)
(* alternate screen: enter, some output, leave.                            *)
(***************************************************************************)
\* the private modes that switch to the alternate screen
AltModes == {47, 1047, 1049}

\* what is processed between entering and leaving: nothing, 'b', CUP 1;1,
\* DECSC, CSI s, CUP 1;1 then DECSC, CUP 1;1 then CSI s
AltMiddles ==
  { <<>>, Chr(98), CUP(1, 1), DECSC, SCOSC, CUP(1, 1) \o DECSC, CUP(1, 1) \o SCOSC }

\* CSI ? mode h, middle, CSI ? mode l
AltRoundTrip(mode, middle) == ModeSet(mode) \o middle \o ModeReset(mode)

AltInputs ==
  {Chr(97), LF, CUP(2, 2)}
    \cup {AltRoundTrip(mode, middle) : mode \in AltModes, middle \in AltMiddles}

ProcessAlt == \E data \in AltInputs : ProcessCall(data, MaxSteps)

NextAlt == ProcessAlt

SpecAlt == Init /\ [][NextAlt]_vars

\* C27: CSI ?1049h ... CSI ?1049l restores the cursor to the position it had
\* when CSI ?1049h was processed, whatever was processed in between, DECSC
\* and CSI s included.
C27_AltScreenCursorRoundTrip ==
  [][ \A middle \in AltMiddles :
        op'.data = AltRoundTrip(1049, middle) => term'.buffer.cursor = Buf.cursor ]_vars

\* C28: after entering the alternate screen (CSI ?1049h, ?47h or ?1047h),
\* arbitrary output and leaving with the matching reset, the live screen
\* shows, row by row, the text that was visible at entry.
C28_AltScreenContentRoundTrip ==
  [][ \A mode \in AltModes : \A middle \in AltMiddles :
        op'.data = AltRoundTrip(mode, middle) =>
          \A r \in 0..(Buf.rows - 1) : RowText(term'.buffer, r) = RowText(Buf, r) ]_vars

(***************************************************************************)
(* SpecRegion: DECSTBM with omitted, zero, in-range, out-of-range and      *)
(* inverted parameters, interleaved with printing, a cursor move and       *)
(* changes of the screen height.                                           *)
(***************************************************************************)
\* DECSTBM sequences, each with its top and bottom parameter, 0 standing for
\* an omitted or zero one: CSI r, CSI 2 r, CSI ;3 r, CSI 0;2 r, CSI 2;3 r,
\* CSI 3;2 r, CSI 2;2 r, CSI 2;9 r, CSI 9;9 r
DecstbmCases ==
  { <<CSI(<<>>, 114), 0, 0>>, <<CSI(<<2>>, 114), 2, 0>>, <<<<27, 91, 59, 51, 114>>, 0, 3>>,
    <<DECSTBM(0, 2), 0, 2>>, <<DECSTBM(2, 3), 2, 3>>, <<DECSTBM(3, 2), 3, 2>>,
    <<DECSTBM(2, 2), 2, 2>>, <<DECSTBM(2, 9), 2, 9>>, <<DECSTBM(9, 9), 9, 9>> }

RegionInputs == {Chr(97), CUP(2, 2)} \cup {case[1] : case \in DecstbmCases}

ProcessRegion == \E data \in RegionInputs : ProcessCall(data, MaxSteps)

ResizeRows == \E rows \in Dims : ResizeCall(DEFAULT_COLS, rows, MaxSteps)

NextRegion == ProcessRegion \/ ResizeRows

SpecRegion == Init /\ [][NextRegion]_vars

\* C29: DECSTBM (CSI t;b r), with an omitted or zero t counting as 1 and an
\* omitted or zero b as rows, and both clamped to rows, makes the scroll
\* region [t-1, b-1] when t-1 < b-1; otherwise the sequence is ignored and
\* the buffer (scroll region, cursor, every cell) is left as it was.
C29_SetScrollRegion ==
  [][ \A case \in DecstbmCases :
        op'.data = case[1] =>
          LET b == term'.buffer
              t == Min(IF case[2] = 0 THEN 1 ELSE case[2], Buf.rows)
              bt == Min(IF case[3] = 0 THEN Buf.rows ELSE case[3], Buf.rows)
          IN  IF t - 1 < bt - 1
                THEN /\ b.scroll_top = t - 1
                     /\ b.scroll_bottom = bt - 1
                ELSE b = Buf ]_vars

\* CSI 3;2 r was ignored: the region set earlier by CSI 2;3 r, the cursor and
\* the printed text are still there
C29_Witness_InvertedIgnored ==
  /\ op.data = DECSTBM(3, 2)
  /\ Buf.scroll_top = 1
  /\ Buf.scroll_bottom = 2
  /\ Buf.cursor.col > 0
  /\ Len(Buf.lines) > 0

(***************************************************************************)
(* SpecRi: printing, line feeds, a scroll region and a cursor move,        *)
(* interleaved with RI.                                                    *)
(***************************************************************************)
RI == <<27, 77>>

RiInputs == {Chr(97), LF, RI, DECSTBM(2, 3), CUP(2, 1)}

ProcessRi == \E data \in RiInputs : ProcessCall(data, MaxSteps)

NextRi == ProcessRi

SpecRi == Init /\ [][NextRi]_vars

\* C30: RI (ESC M) is a reverse index.  With the cursor off the top margin it
\* moves up one row and changes no line; with the cursor on the top margin
\* the cursor stays, the rows of the region move down by one, the top margin
\* row becomes blank, the bottom margin row is dropped and the rows outside
\* the region keep their text.
C30_ReverseIndex ==
  [][ op'.data = RI =>
        LET b == term'.buffer
            row == Buf.cursor.row
            top == Buf.scroll_top
            bottom == Buf.scroll_bottom
        IN  IF row # top
              THEN /\ b.cursor = [Buf.cursor EXCEPT !.row = Max(row - 1, 0)]
                   /\ b.lines = Buf.lines
              ELSE /\ b.cursor = Buf.cursor
                   /\ RowText(b, top) = <<>>
                   /\ \A r \in (top + 1)..bottom : RowText(b, r) = RowText(Buf, r - 1)
                   /\ \A r \in 0..(Buf.rows - 1) :
                        (r < top \/ r > bottom) => RowText(b, r) = RowText(Buf, r) ]_vars

(***************************************************************************)
(* SpecOsc: process() fed whole OSC sequences, with and without a text     *)
(* after the code, ended by BEL or by ESC \, interleaved with printing and *)
(* take_title().                                                           *)
(***************************************************************************)
\* the codes "0", "2", "1" and "52"
OscCodes == {<<48>>, <<50>>, <<49>>, <<53, 50>>}

\* title-setting codes
TitleCodes == {<<48>>, <<50>>}

\* what follows the code: nothing (None), or ';' and one of the texts
\* "", "a", "a;b", ";"
OscTexts == {<<>>, <<97>>, <<97, 59, 98>>, <<59>>}

OscTails == {None} \cup {Some(text) : text \in OscTexts}

\* BEL and ESC \
OscTerminators == {<<7>>, <<27, 92>>}

\* ESC ] code [; text] terminator
Osc(code, tail, terminator) ==
  <<27, 93>> \o code \o (IF tail = None THEN <<>> ELSE <<59>> \o tail[1]) \o terminator

ProcessOsc ==
  \E code \in OscCodes, tail \in OscTails, terminator \in OscTerminators :
    ProcessCall(Osc(code, tail, terminator), MaxSteps)

ProcessOscPrint == ProcessCall(Chr(97), MaxSteps)

NextOsc == ProcessOsc \/ ProcessOscPrint \/ TakeTitle

SpecOsc == Init /\ [][NextOsc]_vars

\* C31 as stated: every OSC whose first field is 0 or 2 sets the pending
\* title to the remaining fields joined with ';', which is the empty string
\* when there is no remaining field; any other code leaves it unchanged.
C31_OscTitleAlwaysSet ==
  [][ \A code \in OscCodes : \A tail \in OscTails : \A terminator \in OscTerminators :
        op'.data = Osc(code, tail, terminator) =>
          IF code \in TitleCodes
            THEN term'.title = Some(IF tail = None THEN <<>> ELSE tail[1])
            ELSE term'.title = term.title ]_vars

\* C31: an OSC whose first field is 0 or 2 and which has at least one more
\* field sets the pending title to the text after the first ';', verbatim
\* (the remaining fields joined with ';'), replacing a title still pending;
\* an OSC 0 or 2 with no further field, and an OSC with any other code, leave
\* the pending title unchanged.
C31_OscTitle ==
  [][ \A code \in OscCodes : \A tail \in OscTails : \A terminator \in OscTerminators :
        op'.data = Osc(code, tail, terminator) =>
          IF code \in TitleCodes /\ tail # None
            THEN term'.title = tail
            ELSE term'.title = term.title ]_vars

\* OSC 2 ; a;b BEL has left the title "a;b" pending
C31_Witness_TitleWithSemicolon ==
  /\ op.data = Osc(<<50>>, Some(<<97, 59, 98>>), <<7>>)
  /\ term.title = Some(<<97, 59, 98>>)
  /\ Len(Buf.lines) > 0

\* C32: in every reachable state, under any interleaving of process() and
\* resize(), scrollback_len() <= total_lines(), so that get_line(i) is Some
\* for every i < scrollback_len().
C32_HistoryExists ==
  /\ scrollback_len(Buf) <= total_lines(Buf)
  /\ \A i \in 0..(scrollback_len(Buf) - 1) : get_line(Buf, i) # None

\* after a resize and a scroll, every line the buffer holds is history
C32_Witness_AllHistory ==
  /\ scrollback_len(Buf) > 0
  /\ scrollback_len(Buf) = total_lines(Buf)
  /\ Buf.rows # DEFAULT_ROWS

(***************************************************************************)
(* SpecWrap: printing single characters and whole rows, line feeds and a   *)
(* move to the start of the bottom row.                                    *)
(***************************************************************************)
WrapInputs == {Chr(97), Chr(98), FillRow, LF, CUP(DEFAULT_ROWS, 1)}

ProcessWrap == \E data \in WrapInputs : ProcessCall(data, MaxSteps + 2)

NextWrap == ProcessWrap

SpecWrap == Init /\ [][NextWrap]_vars

\* the cursor is on the bottom row of a screen whose scroll region is the
\* whole screen
OnBottomRow(b) ==
  /\ b.scroll_top = 0
  /\ b.scroll_bottom = b.rows - 1
  /\ b.cursor.row = b.rows - 1

\* C33: deferred wrap.  With the full-screen scroll region, printing cols
\* characters from column 0 of the bottom row does not scroll: scrollback_len()
\* and the cursor row are unchanged and the row holds the characters.  The
\* next printable character scrolls exactly once (every screen row moves up
\* by one, the filled row included) and lands at column 0 of the bottom row,
\* the rest of that row blank.
C33_DeferredWrap ==
  [][ LET b == term'.buffer
          bottom == Buf.rows - 1
      IN  /\ (op'.data = FillRow /\ OnBottomRow(Buf) /\ Buf.cursor.col = 0) =>
               /\ scrollback_len(b) = scrollback_len(Buf)
               /\ b.cursor.row = bottom
               /\ RowText(b, bottom) = FillRow
               /\ \A r \in 0..(bottom - 1) : RowText(b, r) = RowText(Buf, r)
          /\ ( /\ op.data = FillRow /\ op'.data = Chr(98)
                /\ OnBottomRow(Buf) /\ Buf.cursor.col = Buf.cols
                /\ RowText(Buf, bottom) = FillRow ) =>
               /\ b.cursor = [row |-> bottom, col |-> 1]
               /\ RowText(b, bottom) = Chr(98)
               /\ \A r \in 1..bottom : RowText(b, r - 1) = RowText(Buf, r)
               /\ total_lines(Buf) < Buf.max_lines =>
                    /\ scrollback_len(b) = scrollback_len(Buf) + 1
                    /\ total_lines(b) = total_lines(Buf) + 1 ]_vars

\* a 'b' printed after a full bottom row has scrolled that row up and sits
\* alone at the start of the bottom row
C33_Witness_WrappedOnce ==
  /\ op.data = Chr(98)
  /\ Buf.cursor = [row |-> Buf.rows - 1, col |-> 1]
  /\ RowText(Buf, Buf.rows - 1) = Chr(98)
  /\ RowText(Buf, Buf.rows - 2) = FillRow
  /\ scrollback_len(Buf) > 0

(***************************************************************************)
(* SpecAutoWrap: printing with auto-wrap switched off and on.              *)
(***************************************************************************)
AutoWrapInputs ==
  {Chr(97), FillRow, LF, ModeReset(MODE_AUTO_WRAP), ModeSet(MODE_AUTO_WRAP)}

ProcessAutoWrap == \E data \in AutoWrapInputs : ProcessCall(data, MaxSteps)

NextAutoWrap == ProcessAutoWrap

SpecAutoWrap == Init /\ [][NextAutoWrap]_vars

\* C34: with auto-wrap reset (CSI ?7l), a character printed while the cursor
\* is at the last column (on it, or past it with the wrap pending) does not
\* advance to the next line or scroll: the cursor row, scrollback_len() and
\* every other row are unchanged.
C34_NoWrapWhenAutoWrapOff ==
  [][ ( /\ op'.data = Chr(97)
        /\ ~term.vt100.auto_wrap
        /\ Buf.cursor.col >= Buf.cols - 1 ) =>
        LET b == term'.buffer
        IN  /\ b.cursor.row = Buf.cursor.row
            /\ scrollback_len(b) = scrollback_len(Buf)
            /\ \A r \in 0..(Buf.rows - 1) :
                 r # Buf.cursor.row => RowText(b, r) = RowText(Buf, r) ]_vars

(***************************************************************************)
(* SpecOscBytes: one message "a ESC ] 0 ; body terminator" fed to          *)
(* process() a byte at a time, the body holding ASCII, control and         *)
(* multi-byte UTF-8 characters.                                            *)
(***************************************************************************)
\* title bodies, each with the title it spells: "a", U+00E9, "a" U+00E9 "b",
\* U+20AC, and "a" LF "b" (a C0 byte inside the string is ignored)
OscBodyCases ==
  { <<<<97>>, <<97>>>>,
    <<<<195, 169>>, <<233>>>>,
    <<<<97, 195, 169, 98>>, <<97, 233, 98>>>>,
    <<<<226, 130, 172>>, <<8364>>>>,
    <<<<97, 10, 98>>, <<97, 98>>>> }

\* 'a', then ESC ] 0 ; body terminator
OscMessage(body, terminator) == <<97, 27, 93, 48, 59>> \o body \o terminator

InitOscBytes ==
  /\ term \in {TerminalEmulator_new(oc) : oc \in BOOLEAN}
  /\ op = NoOp
  /\ steps = 0
  /\ session = ManagedSession_new(0, SessionConfig_default, term.buffer.overflow_checks)
  /\ manager = SessionManager_new
  /\ fed = <<>>
  /\ rest \in {OscMessage(case[1], terminator) :
                 case \in OscBodyCases, terminator \in OscTerminators}

NextOscBytes == FeedByte

SpecOscBytes == InitOscBytes /\ [][NextOscBytes]_vars

\* C35: once the 'a' is printed, no byte of the OSC string changes a cell
\* or the cursor, and when the string is complete the pending title is the
\* text of its body, multi-byte characters included.
C35_OscStringIsSilent ==
  \A case \in OscBodyCases : \A terminator \in OscTerminators :
    (fed \o rest = OscMessage(case[1], terminator) /\ Len(fed) >= 1) =>
      /\ term.buffer = put_char(TerminalEmulator_new(Buf.overflow_checks).buffer, 97)
      /\ rest = <<>> => term.title = Some(case[2])

\* C36: UTF-8 resynchronization.  A byte below 0x80 that arrives while a
\* multi-byte character is incomplete is not consumed by it: the incomplete
\* character is dropped and the byte is processed as it would be with no
\* character pending, so an ESC still starts an escape sequence and a
\* printable byte is still printed.
C36_Utf8Resynchronizes ==
  [][ ( /\ op'.name = "process"
        /\ Len(op'.data) = 1
        /\ op'.data[1] < 128
        /\ term.vt100.utf8_buffer # <<>> ) =>
        term' = TerminalEmulator_process([term EXCEPT !.vt100.utf8_buffer = <<>>], op'.data) ]_vars

(***************************************************************************)
(* SpecSgrExt: SGR sequences with complete and truncated extended colour   *)
(* selections, interleaved with printing and SGR 0.                        *)
(***************************************************************************)
\* CSI 38;5;196;1 m, CSI 48;5;21;4 m, CSI 38;2;10;20;30;3 m, CSI 48;2;1;2;3;7 m
CompleteColorInputs ==
  { SGR(<<38, 5, 196, 1>>), SGR(<<48, 5, 21, 4>>),
    SGR(<<38, 2, 10, 20, 30, 3>>), SGR(<<48, 2, 1, 2, 3, 7>>) }

\* CSI 38 m, CSI 48 m, CSI 38;5 m, CSI 48;5 m, CSI 38;2;1 m, CSI 48;2;1;2 m
TruncatedColorInputs ==
  { SGR(<<38>>), SGR(<<48>>), SGR(<<38, 5>>), SGR(<<48, 5>>),
    SGR(<<38, 2, 1>>), SGR(<<48, 2, 1, 2>>) }

ProcessSgrExt ==
  \E data \in CompleteColorInputs \cup TruncatedColorInputs \cup {Chr(97), SGR(<<0>>)} :
    ProcessCall(data, MaxSteps)

NextSgrExt == ProcessSgrExt

SpecSgrExt == Init /\ [][NextSgrExt]_vars

\* C37: an extended colour selection consumes exactly its own
\* sub-parameters (38;5;n and 48;5;n three parameters, 38;2;r;g;b and
\* 48;2;r;g;b five), the parameter after it being applied as an SGR code of
\* its own; a truncated selection changes no field of the style.
C37_ExtendedColorArity ==
  [][ LET style == Buf.current_style
          after == term'.buffer.current_style
      IN  /\ op'.data = SGR(<<38, 5, 196, 1>>) =>
               after = [style EXCEPT !.fg = from_rgb(255, 0, 0), !.bold = TRUE]
          /\ op'.data = SGR(<<48, 5, 21, 4>>) =>
               after = [style EXCEPT !.bg = from_rgb(0, 0, 255), !.underline = TRUE]
          /\ op'.data = SGR(<<38, 2, 10, 20, 30, 3>>) =>
               after = [style EXCEPT !.fg = from_rgb(10, 20, 30), !.italic = TRUE]
          /\ op'.data = SGR(<<48, 2, 1, 2, 3, 7>>) =>
               after = [style EXCEPT !.bg = from_rgb(1, 2, 3), !.inverse = TRUE]
          /\ op'.data \in TruncatedColorInputs => after = style ]_vars

(***************************************************************************)
(* SpecBell: process() fed one byte at a time, over BEL and the bytes that *)
(* lead the lexer into the escape, CSI and OSC states, plus whole OSC      *)
(* titles, interleaved with take_bell().                                   *)
(***************************************************************************)
\* ESC, '[', ']', '1', ':', ' ', 'a', BEL
BellBytes == {27, 91, 93, 49, 58, 32, 97, 7}

\* the lexer states in which BEL is a control character to execute
BellStates == {"Ground", "Escape", "CsiEntry", "CsiParam", "CsiIntermediate", "CsiIgnore"}

ProcessBell ==
  \E data \in {<<byte>> : byte \in BellBytes} \cup {OscPrefix, OscTitle} :
    ProcessCall(data, MaxSteps)

NextBell == ProcessBell \/ TakeBell

SpecBell == Init /\ [][NextBell]_vars

\* C38: a BEL that terminates an OSC string dispatches the OSC and leaves
\* bell-pending as it was, so that ESC ] 0 ; a BEL processed with no bell
\* pending sets the title and leaves take_bell() empty; a BEL received in
\* Ground, Escape or a CSI state sets bell-pending.
C38_BelEndsOscSilently ==
  [][ /\ (op'.data = BEL /\ Lexer.state = "OscString") =>
           /\ term'.bell_pending = term.bell_pending
           /\ term'.vt100.parser.state = "Ground"
           /\ parse(Lexer, 7).action = Some(OscDispatch(Lexer))
      /\ (op'.data = OscTitle /\ ~term.bell_pending) =>
           /\ TerminalEmulator_take_bell(term').result = None
           /\ term'.title = Some(<<97>>)
      /\ (op'.data = BEL /\ Lexer.state \in BellStates) =>
           /\ term'.bell_pending
           /\ TerminalEmulator_take_bell(term').result # None ]_vars

\* a BEL fed on its own has ended the OSC 0;a: the title is pending and the
\* bell is not
C38_Witness_TitleWithoutBell ==
  /\ op.data = BEL
  /\ Lexer.state = "Ground"
  /\ term.title = Some(<<97>>)
  /\ ~term.bell_pending

(***************************************************************************)
(* One ManagedSession: the user's connect(), disconnect() and focus        *)
(* changes, the application's update() on every frame, and the thread of   *)
(* the session's connection.  The user acts and the server accepts a       *)
(* connection at most MaxSteps times in all; the frames and the connection *)
(* threads go on for ever.                                                 *)
(***************************************************************************)
DataPayloads == {BEL}

InitSession ==
  /\ term \in {TerminalEmulator_new(oc) : oc \in BOOLEAN}
  /\ op = NoOp
  /\ steps = 0
  /\ session \in {ManagedSession_new(0, config, term.buffer.overflow_checks) :
                    config \in SessionConfigs}
  /\ manager = SessionManager_new
  /\ fed = <<>>
  /\ rest = <<>>

\* connect()
Connect ==
  /\ steps < MaxSteps
  /\ session' = ManagedSession_connect(session)
  /\ steps' = steps + 1
  /\ UNCHANGED <<term, op, fed, rest, manager>>

\* disconnect()
Disconnect ==
  /\ steps < MaxSteps
  /\ session' = ManagedSession_disconnect(session)
  /\ steps' = steps + 1
  /\ UNCHANGED <<term, op, fed, rest, manager>>

\* set_focused(focused)
SetFocused ==
  \E focused \in BOOLEAN :
    /\ steps < MaxSteps
    /\ session' = ManagedSession_set_focused(session, focused)
    /\ steps' = steps + 1
    /\ UNCHANGED <<term, op, fed, rest, manager>>

\* update(), called on every frame: by update_all(), or by the application's
\* loop over the sessions after it, whose try_recv() takes the first waiting
\* event to see whether there is one (polled)
Update ==
  \E polled \in BOOLEAN :
    /\ polled => session.connection # None /\ session.connection[1].events # <<>>
    /\ session' = ManagedSession_update(
                     IF polled
                     THEN [session EXCEPT !.connection =
                             Some([session.connection[1] EXCEPT !.events = Tail(@)])]
                     ELSE session)
    /\ UNCHANGED <<term, op, steps, fed, rest, manager>>

\* the connection's thread fails to establish the connection
ThreadError ==
  /\ session.connection # None
  /\ session.connection[1].thread = "Connecting"
  /\ session' = [session EXCEPT !.connection = Some(connection_thread_err(@[1]))]
  /\ UNCHANGED <<term, op, steps, fed, rest, manager>>

\* the connection's thread establishes the connection; steps counts these too,
\* so that from some point on every connection attempt fails
ThreadConnected ==
  /\ steps < MaxSteps
  /\ session.connection # None
  /\ session.connection[1].thread = "Connecting"
  /\ session' = [session EXCEPT !.connection = Some(connection_thread_ok(@[1]))]
  /\ steps' = steps + 1
  /\ UNCHANGED <<term, op, fed, rest, manager>>

\* the connected thread reads bytes from the server
ThreadData ==
  \E data \in DataPayloads :
    /\ session.connection # None
    /\ session.connection[1].thread = "Connected"
    /\ Len(session.connection[1].events) < MaxEvents
    /\ session' = [session EXCEPT !.connection = Some(run_session_data(@[1], data))]
    /\ UNCHANGED <<term, op, steps, fed, rest, manager>>

\* the connected thread leaves its loop, at end of file or on a failure
ThreadDisconnected ==
  \E natural \in BOOLEAN :
    /\ session.connection # None
    /\ session.connection[1].thread = "Connected"
    /\ session' = [session EXCEPT !.connection = Some(run_session_end(@[1], natural))]
    /\ UNCHANGED <<term, op, steps, fed, rest, manager>>

NextSession ==
  \/ Connect
  \/ Disconnect
  \/ SetFocused
  \/ Update
  \/ ThreadError
  \/ ThreadConnected
  \/ ThreadData
  \/ ThreadDisconnected

\* update() has something to do: a reconnect to make or events to handle.
\* This is ENABLED <<Update>>_vars as a predicate of the session alone.
UpdateHasWork ==
  \/ session.reconnect_pending = "PendingImmediate"
  \/ session.connection # None /\ session.connection[1].events # <<>>

\* update() runs on every frame: weak fairness of Update, WF_vars(Update), with
\* its ENABLED written as UpdateHasWork.  And establish_connection returns,
\* since it connects with a timeout.
SpecSession ==
  /\ InitSession
  /\ [][NextSession]_vars
  /\ ([]<>(~UpdateHasWork) \/ []<><<Update>>_vars)
  /\ WF_vars(ThreadError \/ ThreadConnected)

\* update() handles a Connected event in this step
UpdateHandlesConnected ==
  /\ session' = ManagedSession_update(session)
  /\ session.reconnect_pending # "PendingImmediate"
  /\ session.connection # None
  /\ \E i \in 1..Len(session.connection[1].events) :
       session.connection[1].events[i].type = "Connected"

\* no connection is being established: a connection starts out Connecting
NotConnecting == session.connection = None \/ session.connection[1].thread # "Connecting"

\* what holds of the reconnection in every state and every step
ReconnectSafety ==
  /\ [](session.reconnect_attempts <= session.config.reconnect_max_attempts)
  /\ [][UpdateHandlesConnected => session'.reconnect_attempts = 0]_vars
  /\ [](session.config.auto_reconnect = "Manual" => session.reconnect_pending = "None")

ManagerOp(name, ids) ==
  [name |-> name, data |-> ids, cols |-> 0, rows |-> 0, result |-> None]

\* the Uuids handed out so far and to come
SessionIds == 0..(MaxIds - 1)

\* the configurations of the tabs: a session that reconnects when its tab is
\* selected, and one that does not reconnect
ManagerConfigs ==
  {config \in SessionConfigs :
     /\ config.auto_reconnect \in {"OnTabFocus", "Manual"}
     /\ config.reconnect_max_attempts = MaxReconnectAttempts}

\* add_session(config)
AddSession ==
  \E config \in ManagerConfigs :
    /\ Len(manager.sessions) < MaxSessions
    /\ manager.next_id < MaxIds
    /\ manager' = SessionManager_add_session(manager, config, term.buffer.overflow_checks)
    /\ op' = ManagerOp("add_session", <<manager.next_id>>)
    /\ UNCHANGED <<term, steps, fed, rest, session>>

\* close_session(id)
CloseSession ==
  \E id \in SessionIds :
    /\ manager' = SessionManager_close_session(manager, id)
    /\ op' = ManagerOp("close_session", <<id>>)
    /\ UNCHANGED <<term, steps, fed, rest, session>>

\* set_active(id)
SetActive ==
  \E id \in SessionIds :
    /\ manager' = SessionManager_set_active(manager, id)
    /\ op' = ManagerOp("set_active", <<id>>)
    /\ UNCHANGED <<term, steps, fed, rest, session>>

\* set_active_index(index)
SetActiveIndex ==
  \E index \in 0..MaxSessions :
    /\ manager' = SessionManager_set_active_index(manager, index)
    /\ op' = ManagerOp("set_active_index", <<index>>)
    /\ UNCHANGED <<term, steps, fed, rest, session>>

\* next_tab()
NextTab ==
  /\ manager' = SessionManager_next_tab(manager)
  /\ op' = ManagerOp("next_tab", <<>>)
  /\ UNCHANGED <<term, steps, fed, rest, session>>

\* prev_tab()
PrevTab ==
  /\ manager' = SessionManager_prev_tab(manager)
  /\ op' = ManagerOp("prev_tab", <<>>)
  /\ UNCHANGED <<term, steps, fed, rest, session>>

NextManager ==
  \/ AddSession
  \/ CloseSession
  \/ SetActive
  \/ SetActiveIndex
  \/ NextTab
  \/ PrevTab

SpecManager == Init /\ [][NextManager]_vars

\* the id of the active session, if active_index names one
ActiveId(m) ==
  IF m.active_index # None /\ m.active_index[1] < Len(m.sessions)
  THEN Some(m.sessions[m.active_index[1] + 1].id)
  ELSE None

\* active_index is None exactly when there is no session, and else a valid index
ActiveIndexValid ==
  /\ manager.active_index = None <=> manager.sessions = <<>>
  /\ manager.active_index # None => manager.active_index[1] < Len(manager.sessions)

\* this step closes a session the manager holds that is not the active one
ClosesOther ==
  /\ CloseSession
  /\ position(manager.sessions, op'.data[1]) # None
  /\ ActiveId(manager) # Some(op'.data[1])

====
